---- MODULE Spec2Model ----
(***************************************************************************)
(* Model of the open-g-hub-core protocol engine: the HID++ 2.0 message     *)
(* codec (hidpp.rs), the request orchestrator and feature resolver         *)
(* (transport.rs), error classification and retry (comm.rs), the safety    *)
(* validators (safety.rs) and the DPI feature module (dpi.rs).             *)
(*                                                                         *)
(* One caller runs one operation at a time.  Every call of send_report is  *)
(* answered by the transport with a result drawn from TransportAnswers:    *)
(* a well-formed frame, an error frame, a malformed byte string or a       *)
(* transport error.  Text is modelled as sequences of one-character        *)
(* strings so that to_lowercase and contains are computed, not assumed.    *)
(*                                                                         *)
(* FunctionSpec runs the validators and the CID tables on their own.       *)
(* DeviceSpec and ConcurrentSpec replace the arbitrary transport by the    *)
(* simulated G502 of the integration tests, whose send_report is atomic:   *)
(* DeviceSpec has one thread run reads and writes in sequence against a    *)
(* device that keeps what is written, ConcurrentSpec has several threads   *)
(* run reads at once.  RetrySpec runs send_with_retry with max_retries     *)
(* over the whole u32 range.  GuiSpec is the GUI application              *)
(* (gui/main.rs): its state and its message handlers, device I/O by its    *)
(* outcome.  ApplySpec runs ApplySettings frame by frame through           *)
(* with_device_index.                                                      *)
(***************************************************************************)
EXTENDS Integers, Sequences, FiniteSets, TLC

VARIABLES
    op,        \* the operation the caller is running, "idle" when none
    pc,        \* position inside the operation; "done" once it has returned
    args,      \* the operation's arguments
    locals,    \* the operation's local variables
    sent,      \* frames handed to send_report by the operation, in order
    rcvd,      \* what send_report returned for each of them, in order
    outcomes,  \* what each hidpp_request call of the operation returned
    result,    \* the operation's return value, meaningful when pc = "done"
    device,    \* the state of the simulated G502 behind a device-backed transport
    threads,   \* the operations running against that device, one per thread
    app        \* the state of the GUI application

vars == <<op, pc, args, locals, sent, rcvd, outcomes, result, device, threads, app>>

(***************************************************************************)
(* Bounds of the model.                                                    *)
(***************************************************************************)
\* largest max_retries handed to send_with_retry
MaxRetriesArg == 3

(***************************************************************************)
(* Integer widths.                                                         *)
(***************************************************************************)
U8_MAX == 255
U16_MAX == 65535

Byte == 0..U8_MAX

WrapU8(n) == n % (U8_MAX + 1)

WrapU16(n) == n % (U16_MAX + 1)

\* Ord::clamp
clamp(v, lo, hi) == IF v < lo THEN lo ELSE IF v > hi THEN hi ELSE v

\* n zero bytes
Zeros(n) == [i \in 1..n |-> 0]

(***************************************************************************)
(* Text: to_lowercase, contains and integer formatting.                    *)
(***************************************************************************)
\* str::to_lowercase on ASCII text
to_lowercase(s) ==
    LET upper == <<"A","B","C","D","E","F","G","H","I","J","K","L","M",
                   "N","O","P","Q","R","S","T","U","V","W","X","Y","Z">>
        lower == <<"a","b","c","d","e","f","g","h","i","j","k","l","m",
                   "n","o","p","q","r","s","t","u","v","w","x","y","z">>
        lc(c) == IF \E k \in 1..26 : upper[k] = c
                 THEN lower[CHOOSE k \in 1..26 : upper[k] = c]
                 ELSE c
    IN  [i \in 1..Len(s) |-> lc(s[i])]

\* str::contains: sub occurs in s as a contiguous run
contains(s, sub) ==
    \E i \in 0..(Len(s) - Len(sub)) :
        \A j \in 1..Len(sub) : s[i + j] = sub[j]

\* "{}" of an unsigned integer
RECURSIVE fmt_dec(_)
fmt_dec(n) ==
    LET digit(d) == <<"0","1","2","3","4","5","6","7","8","9">>[d + 1] IN
    IF n < 10 THEN <<digit(n)>>
    ELSE fmt_dec(n \div 10) \o <<digit(n % 10)>>

\* "{:02X}" of a byte
fmt_hex2(b) ==
    LET digit(d) == <<"0","1","2","3","4","5","6","7","8","9",
                      "A","B","C","D","E","F">>[d + 1]
    IN  <<digit(b \div 16), digit(b % 16)>>

\* "response too short: {} bytes (minimum {})"
msg_too_short(len, minimum) ==
    <<"r","e","s","p","o","n","s","e"," ","t","o","o"," ","s","h","o","r","t",":"," ">>
    \o fmt_dec(len)
    \o <<" ","b","y","t","e","s"," ","(","m","i","n","i","m","u","m"," ">>
    \o fmt_dec(minimum) \o <<")">>

\* "unknown report ID: 0x{other:02X}"
msg_unknown_id(other) ==
    <<"u","n","k","n","o","w","n"," ","r","e","p","o","r","t"," ","I","D",":"," ","0","x">>
    \o fmt_hex2(other)

\* "incomplete report: got {} bytes, expected {}"
msg_incomplete(len, expected) ==
    <<"i","n","c","o","m","p","l","e","t","e"," ","r","e","p","o","r","t",":"," ","g","o","t"," ">>
    \o fmt_dec(len)
    \o <<" ","b","y","t","e","s",","," ","e","x","p","e","c","t","e","d"," ">>
    \o fmt_dec(expected)

\* "retry loop completed without result"
MSG_RETRY_FALLBACK ==
    <<"r","e","t","r","y"," ","l","o","o","p"," ","c","o","m","p","l","e","t","e","d"," ","w","i","t","h","o","u","t"," ","r","e","s","u","l","t">>

(***************************************************************************)
(* error.rs: the Error enum and Result.                                    *)
(***************************************************************************)
NoMsg == <<>>

MkError(kind, msg, feature, code, field, value, min, max) ==
    [kind |-> kind, msg |-> msg, feature |-> feature, code |-> code,
     field |-> field, value |-> value, min |-> min, max |-> max]

NoError == MkError("None", NoMsg, 0, 0, "", 0, 0, 0)

Hid(msg) == MkError("Hid", msg, 0, 0, "", 0, 0, 0)

DeviceNotFound(msg) == MkError("DeviceNotFound", msg, 0, 0, "", 0, 0, 0)

HidppProtocol(feature, code) ==
    MkError("HidppProtocol", NoMsg, feature, code, "", 0, 0, 0)

OutOfRange(field, value, min, max) ==
    MkError("OutOfRange", NoMsg, 0, 0, field, value, min, max)

Profile(msg) == MkError("Profile", msg, 0, 0, "", 0, 0, 0)

PermissionDenied(msg) == MkError("PermissionDenied", msg, 0, 0, "", 0, 0, 0)

Timeout(msg) == MkError("Timeout", msg, 0, 0, "", 0, 0, 0)

\* the value slot of an Err, and of a Result not yet produced
NoVal == <<>>

Ok(v) == [ok |-> TRUE, val |-> v, err |-> NoError]

Err(e) == [ok |-> FALSE, val |-> NoVal, err |-> e]

(***************************************************************************)
(* hidpp.rs: report formats, feature identifiers, encode and decode.       *)
(***************************************************************************)
SHORT_REPORT_ID == 16

LONG_REPORT_ID == 17

SHORT_REPORT_LEN == 7

LONG_REPORT_LEN == 20

ROOT == 0

FEATURE_SET == 1

DEVICE_NAME == 5

ADJUSTABLE_DPI == 8705

REPORT_RATE == 32864

REPROG_CONTROLS_V4 == 6916

ONBOARD_PROFILES == 33024

BATTERY_STATUS == 4096

\* the feature-index byte that marks an error frame
ERROR_FEATURE_INDEX == 255

\* variant of HidppRequest_new: a function past 15 is held at 15
HidppRequest_new_saturating(device_index, feature_index, function, params) ==
    [device_index |-> device_index,
     feature_index |-> feature_index,
     function_sw |-> (IF function > 15 THEN 15 ELSE function) * 16 + 1,
     params |-> params]

\* HidppRequest::new: function in the upper nibble, software id 1 in the lower
HidppRequest_new(device_index, feature_index, function, params) ==
    [device_index |-> device_index,
     feature_index |-> feature_index,
     function_sw |-> WrapU8(function * 16) + 1,
     params |-> params]

\* variant of FillReport: the parameters start one byte early, over function_sw
FillReport_params_at_three(id, req, len) ==
    [i \in 1..len |->
        CASE i = 1 -> id
          [] i = 2 -> req.device_index
          [] i = 3 -> req.feature_index
          [] OTHER -> IF i - 3 <= Len(req.params) THEN req.params[i - 3] ELSE 0]

\* params written from byte 4 on into a zeroed buffer of len bytes
FillReport(id, req, len) ==
    [i \in 1..len |->
        CASE i = 1 -> id
          [] i = 2 -> req.device_index
          [] i = 3 -> req.feature_index
          [] i = 4 -> req.function_sw
          [] OTHER -> IF i - 4 <= Len(req.params) THEN req.params[i - 4] ELSE 0]

\* variant of encode: four parameter bytes still go into a short report
encode_short_up_to_four(req) ==
    LET param_len == Len(req.params) IN
    IF param_len <= 4 THEN Ok(FillReport(SHORT_REPORT_ID, req, SHORT_REPORT_LEN))
    ELSE IF param_len <= 16 THEN Ok(FillReport(LONG_REPORT_ID, req, LONG_REPORT_LEN))
    ELSE Err(HidppProtocol(0, 255))

\* HidppRequest::encode
encode(req) ==
    LET param_len == Len(req.params) IN
    IF param_len <= 3 THEN Ok(FillReport(SHORT_REPORT_ID, req, SHORT_REPORT_LEN))
    ELSE IF param_len <= 16 THEN Ok(FillReport(LONG_REPORT_ID, req, LONG_REPORT_LEN))
    ELSE Err(HidppProtocol(0, 255))

\* variant of decode: a report of exactly the short length is too short
decode_short_inclusive(data) ==
    IF Len(data) <= SHORT_REPORT_LEN
    THEN Err(Hid(msg_too_short(Len(data), SHORT_REPORT_LEN)))
    ELSE IF data[1] \notin {SHORT_REPORT_ID, LONG_REPORT_ID}
    THEN Err(Hid(msg_unknown_id(data[1])))
    ELSE
        LET is_long == (data[1] = LONG_REPORT_ID)
            expected_len == IF is_long THEN LONG_REPORT_LEN ELSE SHORT_REPORT_LEN
        IN  IF Len(data) < expected_len
            THEN Err(Hid(msg_incomplete(Len(data), expected_len)))
            ELSE Ok([is_long |-> is_long,
                     device_index |-> data[2],
                     feature_index |-> data[3],
                     function_sw |-> data[4],
                     params |-> SubSeq(data, 5, expected_len)])

\* variant of decode: device index and feature index read from each other's byte
decode_fields_swapped(data) ==
    IF Len(data) < SHORT_REPORT_LEN
    THEN Err(Hid(msg_too_short(Len(data), SHORT_REPORT_LEN)))
    ELSE IF data[1] \notin {SHORT_REPORT_ID, LONG_REPORT_ID}
    THEN Err(Hid(msg_unknown_id(data[1])))
    ELSE
        LET is_long == (data[1] = LONG_REPORT_ID)
            expected_len == IF is_long THEN LONG_REPORT_LEN ELSE SHORT_REPORT_LEN
        IN  IF Len(data) < expected_len
            THEN Err(Hid(msg_incomplete(Len(data), expected_len)))
            ELSE Ok([is_long |-> is_long,
                     device_index |-> data[3],
                     feature_index |-> data[2],
                     function_sw |-> data[4],
                     params |-> SubSeq(data, 5, expected_len)])

\* variant of decode: the parameters run to the end of the input
decode_params_to_end(data) ==
    IF Len(data) < SHORT_REPORT_LEN
    THEN Err(Hid(msg_too_short(Len(data), SHORT_REPORT_LEN)))
    ELSE IF data[1] \notin {SHORT_REPORT_ID, LONG_REPORT_ID}
    THEN Err(Hid(msg_unknown_id(data[1])))
    ELSE
        LET is_long == (data[1] = LONG_REPORT_ID)
            expected_len == IF is_long THEN LONG_REPORT_LEN ELSE SHORT_REPORT_LEN
        IN  IF Len(data) < expected_len
            THEN Err(Hid(msg_incomplete(Len(data), expected_len)))
            ELSE Ok([is_long |-> is_long,
                     device_index |-> data[2],
                     feature_index |-> data[3],
                     function_sw |-> data[4],
                     params |-> SubSeq(data, 5, Len(data))])

\* HidppResponse::decode
decode(data) ==
    IF Len(data) < SHORT_REPORT_LEN
    THEN Err(Hid(msg_too_short(Len(data), SHORT_REPORT_LEN)))
    ELSE IF data[1] \notin {SHORT_REPORT_ID, LONG_REPORT_ID}
    THEN Err(Hid(msg_unknown_id(data[1])))
    ELSE
        LET is_long == (data[1] = LONG_REPORT_ID)
            expected_len == IF is_long THEN LONG_REPORT_LEN ELSE SHORT_REPORT_LEN
        IN  IF Len(data) < expected_len
            THEN Err(Hid(msg_incomplete(Len(data), expected_len)))
            ELSE Ok([is_long |-> is_long,
                     device_index |-> data[2],
                     feature_index |-> data[3],
                     function_sw |-> data[4],
                     params |-> SubSeq(data, 5, expected_len)])

\* HidppResponse::function
function(resp) == resp.function_sw \div 16

\* variant of is_error: the device-index byte is tested instead
is_error_device_index(resp) == resp.device_index = ERROR_FEATURE_INDEX

\* HidppResponse::is_error
is_error(resp) == resp.feature_index = ERROR_FEATURE_INDEX

(***************************************************************************)
(* comm.rs: error classification.                                          *)
(***************************************************************************)
\* the wording classify looks for in a lowercased Hid message
DISCONNECT_WORDING ==
    {<<"d","i","s","c","o","n","n","e","c","t">>,
     <<"n","o","t"," ","f","o","u","n","d">>,
     <<"n","o"," ","s","u","c","h"," ","d","e","v","i","c","e">>}

PERMISSION_WORDING ==
    {<<"p","e","r","m","i","s","s","i","o","n">>,
     <<"a","c","c","e","s","s"," ","d","e","n","i","e","d">>,
     <<"a","c","c","e","s","s"," ","i","s"," ","d","e","n","i","e","d">>}

TIMEOUT_WORDING ==
    {<<"t","i","m","e","o","u","t">>,
     <<"t","i","m","e","d"," ","o","u","t">>}

\* lower.contains(w) for some w of words
contains_any(lower, words) == \E w \in words : contains(lower, w)

\* variant of classify: an unrecognised Hid message counts as Transient
classify_default_transient(err) ==
    CASE err.kind = "Timeout" -> "Transient"
      [] err.kind = "PermissionDenied" -> "PermissionDenied"
      [] err.kind = "DeviceNotFound" -> "Disconnected"
      [] err.kind = "HidppProtocol" -> "Protocol"
      [] err.kind = "Hid" ->
            LET lower == to_lowercase(err.msg) IN
            IF contains_any(lower, DISCONNECT_WORDING)
            THEN "Disconnected"
            ELSE IF contains_any(lower, PERMISSION_WORDING)
            THEN "PermissionDenied"
            ELSE "Transient"
      [] OTHER -> "InvalidResponse"

\* variant of classify: timeout wording is looked for first
classify_timeout_first(err) ==
    CASE err.kind = "Timeout" -> "Transient"
      [] err.kind = "PermissionDenied" -> "PermissionDenied"
      [] err.kind = "DeviceNotFound" -> "Disconnected"
      [] err.kind = "HidppProtocol" -> "Protocol"
      [] err.kind = "Hid" ->
            LET lower == to_lowercase(err.msg) IN
            IF contains_any(lower, TIMEOUT_WORDING)
            THEN "Transient"
            ELSE IF contains_any(lower, DISCONNECT_WORDING)
            THEN "Disconnected"
            ELSE IF contains_any(lower, PERMISSION_WORDING)
            THEN "PermissionDenied"
            ELSE "InvalidResponse"
      [] OTHER -> "InvalidResponse"

\* ErrorClass::classify
classify(err) ==
    CASE err.kind = "Timeout" -> "Transient"
      [] err.kind = "PermissionDenied" -> "PermissionDenied"
      [] err.kind = "DeviceNotFound" -> "Disconnected"
      [] err.kind = "HidppProtocol" -> "Protocol"
      [] err.kind = "Hid" ->
            LET lower == to_lowercase(err.msg) IN
            IF contains_any(lower, DISCONNECT_WORDING)
            THEN "Disconnected"
            ELSE IF contains_any(lower, PERMISSION_WORDING)
            THEN "PermissionDenied"
            ELSE IF contains_any(lower, TIMEOUT_WORDING)
            THEN "Transient"
            ELSE "InvalidResponse"
      [] OTHER -> "InvalidResponse"

\* variant of is_retryable: every class but Protocol is retried
is_retryable_unless_protocol(class) == class # "Protocol"

\* ErrorClass::is_retryable
is_retryable(class) == class = "Transient"

(***************************************************************************)
(* safety.rs: the validators.                                              *)
(***************************************************************************)
ALLOWED_FEATURE_IDS ==
    {ROOT, FEATURE_SET, DEVICE_NAME, BATTERY_STATUS, REPROG_CONTROLS_V4,
     ADJUSTABLE_DPI, REPORT_RATE, ONBOARD_PROFILES}

DPI_MIN == 100

DPI_MAX == 25600

DPI_STEP == 50

\* the sum validate_dpi forms before dividing, as a mathematical integer
dpi_round_sum(dpi) == dpi + DPI_STEP \div 2

\* variant of validate_dpi: rounds down to the step instead of to the nearest
validate_dpi_truncating(dpi) ==
    IF ~(DPI_MIN <= dpi /\ dpi <= DPI_MAX)
    THEN Err(OutOfRange("dpi", dpi, DPI_MIN, DPI_MAX))
    ELSE Ok(clamp((dpi \div DPI_STEP) * DPI_STEP, DPI_MIN, DPI_MAX))

\* variant of validate_dpi: always moves on to the next step
validate_dpi_next_step(dpi) ==
    IF ~(DPI_MIN <= dpi /\ dpi <= DPI_MAX)
    THEN Err(OutOfRange("dpi", dpi, DPI_MIN, DPI_MAX))
    ELSE Ok(clamp(((dpi \div DPI_STEP) + 1) * DPI_STEP, DPI_MIN, DPI_MAX))

\* validate_dpi; the arithmetic is u16 (a sum past U16_MAX wraps)
validate_dpi(dpi) ==
    IF ~(DPI_MIN <= dpi /\ dpi <= DPI_MAX)
    THEN Err(OutOfRange("dpi", dpi, DPI_MIN, DPI_MAX))
    ELSE
        LET rounded == WrapU16((WrapU16(dpi_round_sum(dpi)) \div DPI_STEP) * DPI_STEP)
            clamped == clamp(rounded, DPI_MIN, DPI_MAX)
        IN  Ok(clamped)

MAX_FUNCTION_ID == 15

\* safety::validate_feature_id; Ok(()) carries no value
validate_feature_id(feature_id) ==
    IF feature_id \in ALLOWED_FEATURE_IDS
    THEN Ok(NoVal)
    ELSE Err(OutOfRange("feature_id", feature_id, 0, 65535))

\* variant of validate_hidpp_request: the function id is checked first
validate_hidpp_request_function_first(feature_id, function_id) ==
    IF function_id > MAX_FUNCTION_ID
    THEN Err(OutOfRange("function_id", function_id, 0, MAX_FUNCTION_ID))
    ELSE validate_feature_id(feature_id)

\* safety::validate_hidpp_request
validate_hidpp_request(feature_id, function_id) ==
    IF ~validate_feature_id(feature_id).ok
    THEN validate_feature_id(feature_id)
    ELSE IF function_id > MAX_FUNCTION_ID
    THEN Err(OutOfRange("function_id", function_id, 0, MAX_FUNCTION_ID))
    ELSE Ok(NoVal)

G502_BUTTON_COUNT == 6

\* a usize of a 64-bit target, hi * 2^32 + lo, kept in two halves
usize(hi, lo) == [hi |-> hi, lo |-> lo]

\* index as u32: the upper half is dropped
as_u32(index) == index.lo

\* variant of validate_button_index: the count itself is still accepted
validate_button_index_inclusive(index) ==
    IF index.hi > 0 \/ index.lo > G502_BUTTON_COUNT
    THEN Err(OutOfRange("button_index", as_u32(index), 0, G502_BUTTON_COUNT - 1))
    ELSE Ok(NoVal)

\* safety::validate_button_index
validate_button_index(index) ==
    IF index.hi > 0 \/ index.lo >= G502_BUTTON_COUNT
    THEN Err(OutOfRange("button_index", as_u32(index), 0, G502_BUTTON_COUNT - 1))
    ELSE Ok(NoVal)

(***************************************************************************)
(* Error messages a transport may report (samples).                        *)
(***************************************************************************)
M_1S_ELAPSED ==
    <<"1","s"," ","e","l","a","p","s","e","d">>
M_ACCESS_DENIED ==
    <<"a","c","c","e","s","s"," ","d","e","n","i","e","d">>
M_G502 ==
    <<"G","5","0","2">>
M_DISCONNECT_DETECTED ==
    <<"d","e","v","i","c","e"," ","d","i","s","c","o","n","n","e","c","t"," ","d","e","t","e","c","t","e","d">>
M_ACCESS_IS_DENIED ==
    <<"A","c","c","e","s","s"," ","i","s"," ","d","e","n","i","e","d">>
M_TIMED_OUT_WAITING ==
    <<"t","i","m","e","d"," ","o","u","t"," ","w","a","i","t","i","n","g"," ","f","o","r"," ","r","e","s","p","o","n","s","e">>
M_MOCK_NO_RESPONSE ==
    <<"m","o","c","k",":"," ","n","o"," ","r","e","s","p","o","n","s","e"," ","r","e","g","i","s","t","e","r","e","d">>
M_DISCONNECT_TIMEOUT ==
    <<"D","i","s","c","o","n","n","e","c","t","e","d"," ","a","f","t","e","r"," ","T","I","M","E","O","U","T">>
M_PERMISSION_TIMED_OUT ==
    <<"P","e","r","m","i","s","s","i","o","n"," ","c","h","e","c","k"," ","t","i","m","e","d"," ","o","u","t">>
M_NO_SUCH_DEVICE ==
    <<"N","o"," ","s","u","c","h"," ","d","e","v","i","c","e">>
M_READ_TIMEOUT ==
    <<"r","e","a","d"," ","T","i","m","e","o","u","t">>
M_HANDLE_NOT_FOUND ==
    <<"H","I","D"," ","h","a","n","d","l","e"," ","N","o","t"," ","F","o","u","n","d">>
M_ACCESS_DENIED_BY_OS ==
    <<"A","C","C","E","S","S"," ","D","E","N","I","E","D"," ","b","y"," ","O","S">>
M_NOT_FOUND_ACCESS_DENIED ==
    <<"h","a","n","d","l","e"," ","n","o","t"," ","f","o","u","n","d",":"," ","a","c","c","e","s","s"," ","d","e","n","i","e","d">>

(***************************************************************************)
(* The transport (external): what send_report may return for a frame.      *)
(***************************************************************************)
\* response parameter bytes of a short report
ShortParamSamples == {<<0, 0, 0>>, <<7, 0, 0>>, <<3, 32, 3>>, <<2, 0, 0>>}

\* the leading parameter bytes of the long responses: a feature index; a
\* control (CID 0x0051) remapped to Forward; a control remapped to a CID
\* outside the table
LongParamSamples ==
    {<<7, 0, 0, 0, 0>>, <<0, 81, 0, 0, 86>>, <<0, 83, 16, 255, 255>>}

\* byte strings that are no complete report, and one longer than its report
MalformedReports ==
    {<<>>,
     <<16, 1, 0, 1, 0, 0>>,
     <<18, 1, 0, 1, 0, 0, 0>>,
     <<17, 1, 0, 1, 0, 0, 0>>,
     <<17, 1, 7, 1>> \o Zeros(15)}

OverlongReports == {<<16, 1, 7, 17, 3, 32, 3, 9>>}

\* a well-formed report that answers some other request
UnrelatedReports == {<<16, 2, 9, 49, 1, 2, 3>>}

TransportErrors ==
    {Timeout(M_1S_ELAPSED), PermissionDenied(M_ACCESS_DENIED), DeviceNotFound(M_G502),
     Hid(M_DISCONNECT_DETECTED), Hid(M_ACCESS_IS_DENIED), Hid(M_TIMED_OUT_WAITING),
     Hid(M_MOCK_NO_RESPONSE), Hid(M_DISCONNECT_TIMEOUT), Hid(M_READ_TIMEOUT)}

\* HidTransport::send_report: every result the transport may give for frame
TransportAnswers(frame) ==
    LET dev == frame[2]
        fidx == frame[3]
        fsw == frame[4]
    IN  {Ok(<<SHORT_REPORT_ID, dev, fidx, fsw>> \o p) : p \in ShortParamSamples}
        \cup {Ok(<<LONG_REPORT_ID, dev, fidx, fsw>> \o p \o Zeros(11)) :
                 p \in LongParamSamples}
        \cup {Ok(<<SHORT_REPORT_ID, dev, ERROR_FEATURE_INDEX, fsw, fidx, 0, 5>>),
              Ok(<<SHORT_REPORT_ID, dev, ERROR_FEATURE_INDEX, fsw, 7, 0, 2>>),
              Ok(<<LONG_REPORT_ID, dev, ERROR_FEATURE_INDEX, fsw, 7, 1, 2>> \o Zeros(13))}
        \cup {Ok(b) : b \in UnrelatedReports \cup MalformedReports \cup OverlongReports}
        \cup {Err(e) : e \in TransportErrors}

\* the answer slot of a request that never reaches the transport
NoAnswer == Err(NoError)

\* the answers a hidpp_request call for req may consume
AnswersFor(req) ==
    IF encode(req).ok THEN TransportAnswers(encode(req).val) ELSE {NoAnswer}

(***************************************************************************)
(* transport.rs: hidpp_request and lookup_feature_index.                   *)
(***************************************************************************)
\* variant of hidpp_request: a response that does not decode is asked for again
hidpp_request_resend(req, answer) ==
    LET encoded == encode(req) IN
    IF ~encoded.ok
    THEN [res |-> Err(encoded.err), frames |-> <<>>, answers |-> <<>>]
    ELSE
        LET io(res) == [res |-> res, frames |-> <<encoded.val>>, answers |-> <<answer>>] IN
        IF ~answer.ok THEN io(Err(answer.err))
        ELSE
            LET decoded == decode(answer.val) IN
            IF ~decoded.ok
            THEN [res |-> Err(decoded.err), frames |-> <<encoded.val, encoded.val>>,
                  answers |-> <<answer, answer>>]
            ELSE IF is_error(decoded.val)
            THEN io(Err(HidppProtocol(decoded.val.params[1], decoded.val.params[3])))
            ELSE io(Ok(decoded.val))

\* variant of hidpp_request: a response is accepted only when it echoes the
\* request's device index, feature index and function byte
hidpp_request_correlated(req, answer) ==
    LET encoded == encode(req) IN
    IF ~encoded.ok
    THEN [res |-> Err(encoded.err), frames |-> <<>>, answers |-> <<>>]
    ELSE
        LET io(res) == [res |-> res, frames |-> <<encoded.val>>, answers |-> <<answer>>] IN
        IF ~answer.ok THEN io(Err(answer.err))
        ELSE
            LET decoded == decode(answer.val) IN
            IF ~decoded.ok THEN io(Err(decoded.err))
            ELSE
                LET resp == decoded.val
                    error_feature == IF Len(resp.params) >= 2 THEN resp.params[1] ELSE 0
                    error_code == IF Len(resp.params) >= 3 THEN resp.params[3] ELSE 0
                IN  IF is_error(resp)
                    THEN io(Err(HidppProtocol(error_feature, error_code)))
                    ELSE IF resp.device_index # req.device_index
                            \/ resp.feature_index # req.feature_index
                            \/ resp.function_sw # req.function_sw
                    THEN io(Err(Hid(NoMsg)))
                    ELSE io(Ok(resp))

\* hidpp_request, given the transport's answer to its one send_report call.
\* res is the return value; frames and answers are the I/O it performed.
hidpp_request(req, answer) ==
    LET encoded == encode(req) IN
    IF ~encoded.ok
    THEN [res |-> Err(encoded.err), frames |-> <<>>, answers |-> <<>>]
    ELSE
        LET io(res) == [res |-> res, frames |-> <<encoded.val>>, answers |-> <<answer>>] IN
        IF ~answer.ok THEN io(Err(answer.err))
        ELSE
            LET decoded == decode(answer.val) IN
            IF ~decoded.ok THEN io(Err(decoded.err))
            ELSE
                LET resp == decoded.val
                    error_feature == IF Len(resp.params) >= 2 THEN resp.params[1] ELSE 0
                    error_code == IF Len(resp.params) >= 3 THEN resp.params[3] ELSE 0
                IN  IF is_error(resp)
                    THEN io(Err(HidppProtocol(error_feature, error_code)))
                    ELSE io(Ok(resp))

\* variant of lookup_request: the feature id in little-endian order
lookup_request_le(device_index, feature_id) ==
    HidppRequest_new(device_index, 0, 0,
                     <<feature_id % 256, WrapU8(feature_id \div 256)>>)

\* the getFeatureID request lookup_feature_index builds
lookup_request(device_index, feature_id) ==
    HidppRequest_new(device_index, 0, 0,
                     <<WrapU8(feature_id \div 256), feature_id % 256>>)

\* variant of lookup_feature_index: index 0 is handed back as a valid index
lookup_feature_index_accepts_zero(device_index, feature_id, answer) ==
    LET r == hidpp_request(lookup_request(device_index, feature_id), answer) IN
    IF ~r.res.ok THEN r
    ELSE [r EXCEPT !.res = Ok(r.res.val.params[1])]

\* variant of lookup_feature_index: a successful lookup yields the index the
\* feature had when first resolved, whatever the response says
lookup_feature_index_remembered(device_index, feature_id, answer) ==
    LET r == hidpp_request(lookup_request(device_index, feature_id), answer) IN
    IF ~r.res.ok THEN r
    ELSE IF r.res.val.params[1] = 0
    THEN [r EXCEPT !.res = Err(HidppProtocol(feature_id, 5))]
    ELSE [r EXCEPT !.res = Ok(IF feature_id = ADJUSTABLE_DPI THEN 7
                              ELSE r.res.val.params[1])]

\* lookup_feature_index
lookup_feature_index(device_index, feature_id, answer) ==
    LET r == hidpp_request(lookup_request(device_index, feature_id), answer) IN
    IF ~r.res.ok THEN r
    ELSE
        LET feature_index == r.res.val.params[1] IN
        IF feature_index = 0
        THEN [r EXCEPT !.res = Err(HidppProtocol(feature_id, 5))]
        ELSE [r EXCEPT !.res = Ok(feature_index)]

(***************************************************************************)
(* comm.rs: send_with_retry.                                               *)
(***************************************************************************)
\* Option<Error>: None is <<>>, Some(e) is <<e>>
None == <<>>

Some(e) == <<e>>

\* last_error.unwrap_or_else(|| Error::Hid("retry loop completed without result"))
unwrap_or_fallback(last_error) ==
    IF last_error = None THEN Hid(MSG_RETRY_FALLBACK) ELSE last_error[1]

\* variant of send_with_retry_iter: the range is 0..max_retries, end excluded
send_with_retry_iter_exclusive(r, attempt, max_retries, last_error) ==
    IF r.ok
    THEN [pc |-> "done", result |-> Ok(r.val), attempt |-> attempt,
          last_error |-> last_error]
    ELSE IF ~is_retryable(classify(r.err)) \/ attempt = max_retries
    THEN [pc |-> "done", result |-> Err(r.err), attempt |-> attempt,
          last_error |-> last_error]
    ELSE IF attempt + 1 < max_retries
    THEN [pc |-> "loop", result |-> Err(NoError), attempt |-> attempt + 1,
          last_error |-> Some(r.err)]
    ELSE [pc |-> "done", result |-> Err(unwrap_or_fallback(Some(r.err))),
          attempt |-> attempt + 1, last_error |-> Some(r.err)]

\* variant of send_with_retry_iter: a success on the first attempt does not
\* return (the return sits inside the "attempt > 0" branch)
send_with_retry_iter_ok_fallthrough(r, attempt, max_retries, last_error) ==
    IF r.ok /\ attempt > 0
    THEN [pc |-> "done", result |-> Ok(r.val), attempt |-> attempt,
          last_error |-> last_error]
    ELSE IF ~r.ok /\ (~is_retryable(classify(r.err)) \/ attempt = max_retries)
    THEN [pc |-> "done", result |-> Err(r.err), attempt |-> attempt,
          last_error |-> last_error]
    ELSE
        LET last == IF r.ok THEN last_error ELSE Some(r.err) IN
        IF attempt + 1 <= max_retries
        THEN [pc |-> "loop", result |-> Err(NoError), attempt |-> attempt + 1,
              last_error |-> last]
        ELSE [pc |-> "done", result |-> Err(unwrap_or_fallback(last)),
              attempt |-> attempt + 1, last_error |-> last]

\* One iteration of the retry loop on the result r of its hidpp_request call,
\* followed by the loop exit when the range 0..=max_retries is exhausted.
send_with_retry_iter(r, attempt, max_retries, last_error) ==
    IF r.ok
    THEN [pc |-> "done", result |-> Ok(r.val), attempt |-> attempt,
          last_error |-> last_error]
    ELSE IF ~is_retryable(classify(r.err)) \/ attempt = max_retries
    THEN [pc |-> "done", result |-> Err(r.err), attempt |-> attempt,
          last_error |-> last_error]
    ELSE IF attempt + 1 <= max_retries
    THEN [pc |-> "loop", result |-> Err(NoError), attempt |-> attempt + 1,
          last_error |-> Some(r.err)]
    ELSE [pc |-> "done", result |-> Err(unwrap_or_fallback(Some(r.err))),
          attempt |-> attempt + 1, last_error |-> Some(r.err)]

\* a u32 as its two 16-bit halves: hi * 2^16 + lo
u32(hi, lo) == [hi |-> hi, lo |-> lo]

U32_MAX == u32(U16_MAX, U16_MAX)

u32_lt(a, b) == a.hi < b.hi \/ (a.hi = b.hi /\ a.lo < b.lo)

\* x + 1 on u32, wrapping
u32_add_one(x) ==
    IF x.lo < U16_MAX THEN u32(x.hi, x.lo + 1)
    ELSE IF x.hi < U16_MAX THEN u32(x.hi + 1, 0)
    ELSE u32(0, 0)

\* the builds and logging setups send_with_retry may run under: arithmetic
\* overflow panics or wraps, and the tracing subscriber lets through nothing,
\* warn! events, or warn! and debug! events
Builds == [overflow_checks : BOOLEAN, log_level : {"off", "warn", "debug"}]

\* One iteration of the retry loop with attempt and max_retries at their u32
\* width and the arithmetic of the log statements: "attempt + 1" and
\* "max_retries + 1" are computed when the event is enabled, and panic on
\* overflow when the build checks it.
send_with_retry_u32(r, attempt, max_retries, last_error, build) ==
    LET overflows(x) == build.overflow_checks /\ x = U32_MAX
        warn_enabled == build.log_level \in {"warn", "debug"}
        debug_enabled == build.log_level = "debug"
        out(p, res, a, l) == [pc |-> p, result |-> res, attempt |-> a, last_error |-> l]
        panic == out("panicked", Err(NoError), attempt, last_error)
    IN  IF r.ok
        THEN IF attempt # u32(0, 0) /\ debug_enabled /\ overflows(attempt)
             THEN panic
             ELSE out("done", Ok(r.val), attempt, last_error)
        ELSE IF ~is_retryable(classify(r.err)) \/ attempt = max_retries
        THEN IF warn_enabled /\ (overflows(attempt) \/ overflows(max_retries))
             THEN panic
             ELSE out("done", Err(r.err), attempt, last_error)
        ELSE IF debug_enabled /\ (overflows(attempt) \/ overflows(max_retries))
        THEN panic
        ELSE IF u32_lt(attempt, max_retries)
        THEN out("loop", Err(NoError), u32_add_one(attempt), Some(r.err))
        ELSE out("done", Err(unwrap_or_fallback(Some(r.err))), attempt, Some(r.err))

(***************************************************************************)
(* dpi.rs: write_dpi.                                                      *)
(***************************************************************************)
\* variant of write_dpi_validated: the value is passed on without validation
write_dpi_unvalidated(dpi) == Ok(dpi)

\* the value write_dpi goes on with, or the error it returns at once
write_dpi_validated(dpi) == validate_dpi(dpi)

\* variant of write_dpi_request: the DPI bytes in little-endian order
write_dpi_request_le(device_index, feature_idx, validated) ==
    HidppRequest_new(device_index, feature_idx, 2,
                     <<0, validated % 256, WrapU8(validated \div 256)>>)

\* the setSensorDpi request
write_dpi_request(device_index, feature_idx, validated) ==
    HidppRequest_new(device_index, feature_idx, 2,
                     <<0, WrapU8(validated \div 256), validated % 256>>)

(***************************************************************************)
(* comm.rs: check_device_status.                                           *)
(***************************************************************************)
\* the ping of check_device_status
ping_request(device_index) == HidppRequest_new(device_index, 0, 0, <<0, 0>>)

\* variant of device_status: the catch-all arm reports Disconnected
device_status_default_disconnected(res) ==
    IF res.ok THEN "Connected"
    ELSE CASE classify(res.err) = "Disconnected" -> "Disconnected"
           [] classify(res.err) = "PermissionDenied" -> "PermissionError"
           [] OTHER -> "Disconnected"

\* the DeviceStatus check_device_status gives for the result of its ping
device_status(res) ==
    IF res.ok THEN "Connected"
    ELSE CASE classify(res.err) = "Disconnected" -> "Disconnected"
           [] classify(res.err) = "PermissionDenied" -> "PermissionError"
           [] OTHER -> "Error"

(***************************************************************************)
(* device.rs: PollingRate; safety.rs: validate_polling_rate.               *)
(***************************************************************************)
\* variant of from_hz: anything from 1000 Hz up is taken as 1000 Hz
from_hz_saturating(hz) ==
    CASE hz = 125 -> Some("Hz125")
      [] hz = 250 -> Some("Hz250")
      [] hz = 500 -> Some("Hz500")
      [] hz >= 1000 -> Some("Hz1000")
      [] OTHER -> None

\* PollingRate::from_hz
from_hz(hz) ==
    CASE hz = 125 -> Some("Hz125")
      [] hz = 250 -> Some("Hz250")
      [] hz = 500 -> Some("Hz500")
      [] hz = 1000 -> Some("Hz1000")
      [] OTHER -> None

\* PollingRate::as_hz: the discriminant of the variant
as_hz(rate) ==
    CASE rate = "Hz125" -> 125
      [] rate = "Hz250" -> 250
      [] rate = "Hz500" -> 500
      [] rate = "Hz1000" -> 1000

\* safety::validate_polling_rate
validate_polling_rate(hz) ==
    IF from_hz(hz) = None
    THEN Err(OutOfRange("polling_rate", hz, 125, 1000))
    ELSE Ok(from_hz(hz)[1])

(***************************************************************************)
(* device.rs: PollingRate; report_rate.rs; dpi.rs: read_dpi.               *)
(***************************************************************************)
\* the getSensorDpi request of read_dpi: function 1, sensor 0
read_dpi_request(device_index, feature_idx) ==
    HidppRequest_new(device_index, feature_idx, 1, <<0>>)

\* variant of read_dpi_value: the DPI is read one byte further on
read_dpi_value_offset(resp) == WrapU16(resp.params[2] * 256 + resp.params[3])

\* the DPI read_dpi decodes from the response: params[0..1], big-endian
read_dpi_value(resp) == WrapU16(resp.params[1] * 256 + resp.params[2])

interval_to_rate(interval) ==
    CASE interval = 1 -> Ok("Hz1000")
      [] interval = 2 -> Ok("Hz500")
      [] interval = 4 -> Ok("Hz250")
      [] interval = 8 -> Ok("Hz125")
      [] OTHER -> Err(HidppProtocol(REPORT_RATE, interval))

\* the getReportRate request of read_report_rate: function 1, no parameters
read_report_rate_request(device_index, feature_idx) ==
    HidppRequest_new(device_index, feature_idx, 1, <<>>)

(***************************************************************************)
(* buttons.rs: control ids and the REPROG_CONTROLS_V4 operations.          *)
(***************************************************************************)
LEFT_CLICK == 80
RIGHT_CLICK == 81
MIDDLE_CLICK == 82
BACK == 83
FORWARD == 86
DPI_UP == 77
DPI_DOWN == 78
NO_ACTION == 0

\* device.rs: ButtonAction::ALL
ButtonActions ==
    {"LeftClick", "RightClick", "MiddleClick", "Back", "Forward", "DpiCycleUp",
     "DpiCycleDown", "NoAction"}

action_to_cid(action) ==
    CASE action = "LeftClick" -> LEFT_CLICK
      [] action = "RightClick" -> RIGHT_CLICK
      [] action = "MiddleClick" -> MIDDLE_CLICK
      [] action = "Back" -> BACK
      [] action = "Forward" -> FORWARD
      [] action = "DpiCycleUp" -> DPI_UP
      [] action = "DpiCycleDown" -> DPI_DOWN
      [] action = "NoAction" -> NO_ACTION

\* variant of cid_to_action: the two thumb buttons are exchanged
cid_to_action_thumbs_swapped(cid) ==
    CASE cid = LEFT_CLICK -> "LeftClick"
      [] cid = RIGHT_CLICK -> "RightClick"
      [] cid = MIDDLE_CLICK -> "MiddleClick"
      [] cid = BACK -> "Forward"
      [] cid = FORWARD -> "Back"
      [] cid = DPI_UP -> "DpiCycleUp"
      [] cid = DPI_DOWN -> "DpiCycleDown"
      [] OTHER -> "NoAction"

cid_to_action(cid) ==
    CASE cid = LEFT_CLICK -> "LeftClick"
      [] cid = RIGHT_CLICK -> "RightClick"
      [] cid = MIDDLE_CLICK -> "MiddleClick"
      [] cid = BACK -> "Back"
      [] cid = FORWARD -> "Forward"
      [] cid = DPI_UP -> "DpiCycleUp"
      [] cid = DPI_DOWN -> "DpiCycleDown"
      [] OTHER -> "NoAction"

\* the getControlInfo request: function 1, params[0] = index
control_info_request(device_index, feature_idx, index) ==
    HidppRequest_new(device_index, feature_idx, 1, <<index>>)

\* variant of read_control_info_with_feature: the CID bytes alone are required
read_control_info_with_feature_cid_only(device_index, feature_idx, index, answer) ==
    LET r == hidpp_request(control_info_request(device_index, feature_idx, index),
                           answer)
    IN  IF ~r.res.ok THEN r
        ELSE
            LET p == r.res.val.params IN
            IF Len(p) < 2
            THEN [r EXCEPT !.res = Err(HidppProtocol(REPROG_CONTROLS_V4, 254))]
            ELSE [r EXCEPT !.res = Ok([cid |-> p[1] * 256 + p[2],
                                       task_id |-> 0,
                                       flags |-> 0])]

\* read_control_info_with_feature, given the transport's answer: the response
\* must carry five parameter bytes; the CID is params[0..1], big-endian
read_control_info_with_feature(device_index, feature_idx, index, answer) ==
    LET r == hidpp_request(control_info_request(device_index, feature_idx, index),
                           answer)
    IN  IF ~r.res.ok THEN r
        ELSE
            LET p == r.res.val.params IN
            IF Len(p) < 5
            THEN [r EXCEPT !.res = Err(HidppProtocol(REPROG_CONTROLS_V4, 254))]
            ELSE [r EXCEPT !.res = Ok([cid |-> p[1] * 256 + p[2],
                                       task_id |-> p[3] * 256 + p[4],
                                       flags |-> p[5]])]

\* variant of control_reporting_request: the CID in little-endian order
control_reporting_request_le(device_index, feature_idx, cid) ==
    HidppRequest_new(device_index, feature_idx, 2,
                     <<cid % 256, WrapU8(cid \div 256)>>)

\* the getControlReporting request of read_button_mapping
control_reporting_request(device_index, feature_idx, cid) ==
    HidppRequest_new(device_index, feature_idx, 2,
                     <<WrapU8(cid \div 256), cid % 256>>)

\* the remap CID read_button_mapping takes from the getControlReporting
\* response: params[3..4], or the control's own CID when the response has
\* fewer than five parameter bytes
remap_cid(resp, cid) ==
    IF Len(resp.params) >= 5
    THEN resp.params[4] * 256 + resp.params[5]
    ELSE cid

\* variant of set_control_reporting_request: the remap flag byte is left out
set_control_reporting_request_no_flag(device_index, feature_idx, cid, remap) ==
    HidppRequest_new(device_index, feature_idx, 3,
                     <<WrapU8(cid \div 256), cid % 256,
                       WrapU8(remap \div 256), remap % 256>>)

\* the setControlReporting request of write_button_mapping
set_control_reporting_request(device_index, feature_idx, cid, remap) ==
    HidppRequest_new(device_index, feature_idx, 3,
                     <<WrapU8(cid \div 256), cid % 256, 16,
                       WrapU8(remap \div 256), remap % 256>>)

(***************************************************************************)
(* report_rate.rs: rate_to_interval and write_report_rate.                 *)
(***************************************************************************)
\* device.rs: PollingRate::ALL
PollingRates == {"Hz125", "Hz250", "Hz500", "Hz1000"}

\* variant of rate_to_interval: 250 Hz and 125 Hz exchanged
rate_to_interval_swapped(rate) ==
    CASE rate = "Hz1000" -> 1
      [] rate = "Hz500" -> 2
      [] rate = "Hz250" -> 8
      [] rate = "Hz125" -> 4

rate_to_interval(rate) ==
    CASE rate = "Hz1000" -> 1
      [] rate = "Hz500" -> 2
      [] rate = "Hz250" -> 4
      [] rate = "Hz125" -> 8

\* the setReportRate request of write_report_rate: function 2, one byte
write_report_rate_request(device_index, feature_idx, rate) ==
    HidppRequest_new(device_index, feature_idx, 2, <<rate_to_interval(rate)>>)

\* bitmask & interval on bytes
RECURSIVE bitand(_, _)
bitand(a, b) ==
    IF a = 0 \/ b = 0 THEN 0
    ELSE (a % 2) * (b % 2) + 2 * bitand(a \div 2, b \div 2)

\* the getReportRateList request of read_supported_rates: function 0, no params
read_supported_rates_request(device_index, feature_idx) ==
    HidppRequest_new(device_index, feature_idx, 0, <<>>)

\* variant of supported_rates: the intervals are walked from 8 down to 1
RECURSIVE supported_rates_descending(_, _)
supported_rates_descending(bitmask, intervals) ==
    IF intervals = <<>> THEN <<>>
    ELSE LET interval == intervals[Len(intervals)]
             rate == interval_to_rate(interval)
         IN  (IF bitand(bitmask, interval) # 0 /\ rate.ok THEN <<rate.val>> ELSE <<>>)
                \o supported_rates_descending(bitmask, SubSeq(intervals, 1, Len(intervals) - 1))

\* the loop of read_supported_rates over the intervals still to test: a rate
\* is pushed when its interval's bit is set in the bitmask
RECURSIVE supported_rates(_, _)
supported_rates(bitmask, intervals) ==
    IF intervals = <<>> THEN <<>>
    ELSE LET interval == Head(intervals)
             rate == interval_to_rate(interval)
         IN  (IF bitand(bitmask, interval) # 0 /\ rate.ok THEN <<rate.val>> ELSE <<>>)
                \o supported_rates(bitmask, Tail(intervals))

\* the intervals read_supported_rates tests, in its order
RateIntervals == <<1, 2, 4, 8>>

(***************************************************************************)
(* Inputs.                                                                 *)
(***************************************************************************)
DeviceIndexes == {1, 255}

DpiInputs ==
    {0, 50, 99, 100, 124, 125, 130, 250, 255, 256, 275, 810, 825, 1600, 3200,
     12345, 12800, 20000, 25574, 25575, 25599, 25600, 25601, 30000, 65535}

FeatureIdInputs == ALLOWED_FEATURE_IDS \cup {208, 6146, 65535}

\* longest parameter list handed to encode, longest byte string handed to decode
MaxParamLen == 18
MaxReportLen == 21

\* n parameter bytes, none of them zero and no two equal
ParamPattern(n) == [i \in 1..n |-> 160 + i]

\* requests for encode on its own: every parameter count up to MaxParamLen
EncodeInputs ==
    {HidppRequest_new(d, f, fn, ParamPattern(n)) :
        d \in DeviceIndexes, f \in {0, 7, 254}, fn \in {0, 2, 15}, n \in 0..MaxParamLen}

\* byte strings for decode on its own: every first byte, every length up to
\* MaxReportLen
DecodeInputs ==
    {<<>>} \cup {<<id>> \o ParamPattern(n) : id \in Byte, n \in 0..(MaxReportLen - 1)}

\* button indexes: the six valid ones, the first invalid ones, one past a
\* byte, and indexes that do not fit in 32 bits
ButtonIndexInputs ==
    {usize(0, n) : n \in (0..7) \cup {10, 256}} \cup {usize(1, n) : n \in {0, 3, 6}}

RequestInputs ==
    {HidppRequest_new(1, 0, 0, <<0, 0>>),
     HidppRequest_new(1, 7, 1, <<0>>),
     HidppRequest_new(255, 9, 3, <<0, 83, 16, 0, 86>>),
     HidppRequest_new(1, 7, 2, Zeros(16)),
     HidppRequest_new(1, 7, 2, Zeros(17))}

\* max_retries values over the whole u32 range, and the most attempts of one
\* call that are followed
MaxRetriesInputs == {u32(0, n) : n \in 0..MaxRetriesArg} \cup {u32(1, 0), U32_MAX}

MaxAttempts == 5

RetryRequests == {HidppRequest_new(1, 7, 1, <<0>>), HidppRequest_new(1, 7, 2, Zeros(17))}

\* every error decode can return: each short length, each unknown report id,
\* each incomplete long report
DecodeErrors ==
    {decode(Zeros(n)).err : n \in 0..(SHORT_REPORT_LEN - 1)}
    \cup {decode(<<id>> \o Zeros(SHORT_REPORT_LEN - 1)).err :
             id \in Byte \ {SHORT_REPORT_ID, LONG_REPORT_ID}}
    \cup {decode(<<LONG_REPORT_ID>> \o Zeros(n)).err :
             n \in (SHORT_REPORT_LEN - 1)..(LONG_REPORT_LEN - 2)}

ErrorInputs ==
    TransportErrors
    \cup {Hid(M_PERMISSION_TIMED_OUT), Hid(M_NO_SUCH_DEVICE),
          Hid(M_NOT_FOUND_ACCESS_DENIED), Hid(M_HANDLE_NOT_FOUND),
          Hid(M_ACCESS_DENIED_BY_OS), Hid(NoMsg), Profile(M_G502),
          HidppProtocol(ADJUSTABLE_DPI, 5), HidppProtocol(0, 255)}
    \cup {validate_dpi(d).err : d \in {50, 30000}}
    \cup DecodeErrors

(***************************************************************************)
(* The simulated G502 of the integration tests: a transport whose          *)
(* send_report looks the frame up under a lock and answers it in one step. *)
(***************************************************************************)
\* threads sharing the transport
NumThreads == 3

Threads == 1..NumThreads

\* the device index every test addresses
DEV_IDX == 1

\* feature indexes the device may report: those of create_mock_g502, and the
\* same four indexes handed out differently
FeatureTables == {"first", "second"}

feature_index_of(table, feature_id) ==
    CASE feature_id = ADJUSTABLE_DPI -> IF table = "first" THEN 7 ELSE 8
      [] feature_id = REPORT_RATE -> IF table = "first" THEN 8 ELSE 9
      [] feature_id = REPROG_CONTROLS_V4 -> IF table = "first" THEN 9 ELSE 10
      [] feature_id = ONBOARD_PROFILES -> IF table = "first" THEN 10 ELSE 7
      [] OTHER -> 0

\* the device as the tests set it up: 800 DPI, 1000 Hz, six controls
G502 == [dpi |-> 800, interval |-> 1, rate_list |-> 15, table |-> "first"]

\* send_report of the device-backed transport: the answer to frame and the
\* device state after it.  A set-DPI or set-rate frame is echoed and its
\* value kept; a frame the device has no response for gets the mock's error.
device_send_report(dev, frame) ==
    LET fidx == frame[3]
        fn == frame[4] \div 16
        short(p) == Ok(<<SHORT_REPORT_ID, frame[2], frame[3], frame[4]>> \o p)
        known == frame[1] = SHORT_REPORT_ID /\ frame[2] = DEV_IDX
        at(feature_id) == fidx = feature_index_of(dev.table, feature_id)
    IN  CASE known /\ fidx = 0 /\ fn = 0 ->
                [answer |-> short(<<feature_index_of(dev.table,
                                                     frame[5] * 256 + frame[6]), 0, 0>>),
                 device |-> dev]
          [] known /\ at(ADJUSTABLE_DPI) /\ fn = 1 ->
                [answer |-> short(<<dev.dpi \div 256, dev.dpi % 256, 3>>),
                 device |-> dev]
          [] known /\ at(ADJUSTABLE_DPI) /\ fn = 2 ->
                [answer |-> short(<<frame[5], frame[6], frame[7]>>),
                 device |-> [dev EXCEPT !.dpi = frame[6] * 256 + frame[7]]]
          [] known /\ at(REPORT_RATE) /\ fn = 0 ->
                [answer |-> short(<<dev.rate_list, 0, 0>>), device |-> dev]
          [] known /\ at(REPORT_RATE) /\ fn = 1 ->
                [answer |-> short(<<dev.interval, 0, 0>>), device |-> dev]
          [] known /\ at(REPORT_RATE) /\ fn = 2 ->
                [answer |-> short(<<frame[5], 0, 0>>),
                 device |-> [dev EXCEPT !.interval = frame[5]]]
          [] known /\ at(REPROG_CONTROLS_V4) /\ fn = 0 ->
                [answer |-> short(<<6, 0, 0>>), device |-> dev]
          [] known /\ at(ONBOARD_PROFILES) /\ fn = 2 ->
                [answer |-> short(<<0, 0, 0>>), device |-> dev]
          [] OTHER -> [answer |-> Err(Hid(M_MOCK_NO_RESPONSE)), device |-> dev]

\* a thread: the operation it runs, its arguments and locals, the frames it
\* sent and the answers it got in this operation, and what it last wrote
\* with success (0 and "" for nothing yet)
NoThread ==
    [op |-> "idle", pc |-> "idle", dpi |-> 0, rate |-> "", validated |-> 0,
     feature_idx |-> 0, frames |-> <<>>, answers |-> <<>>, result |-> Err(NoError),
     wrote_dpi |-> 0, wrote_rate |-> ""]

\* the operations a thread may run, and those of them that only read
DeviceOps ==
    {"read_dpi", "write_dpi", "read_report_rate", "write_report_rate",
     "read_supported_rates", "read_control_count", "get_current_profile"}

ReadOps == {"read_dpi", "read_report_rate", "read_control_count"}

\* DPI values handed to write_dpi against the device
DeviceDpiInputs == {50, 100, 810, 825, 1600, 3200, 25600, 30000}

\* the feature an operation looks up
feature_of(o) ==
    CASE o \in {"read_dpi", "write_dpi"} -> ADJUSTABLE_DPI
      [] o \in {"read_report_rate", "write_report_rate", "read_supported_rates"} ->
            REPORT_RATE
      [] o = "read_control_count" -> REPROG_CONTROLS_V4
      [] o = "get_current_profile" -> ONBOARD_PROFILES

\* variant of command_request: the index resolved by the first thread is used
command_request_shared_index(ts, t) ==
    LET th == ts[t]
        idx == ts[1].feature_idx
    IN  CASE th.op = "read_dpi" -> read_dpi_request(DEV_IDX, idx)
          [] th.op = "write_dpi" -> write_dpi_request(DEV_IDX, idx, th.validated)
          [] th.op = "read_report_rate" -> read_report_rate_request(DEV_IDX, idx)
          [] th.op = "write_report_rate" ->
                write_report_rate_request(DEV_IDX, idx, th.rate)
          [] th.op = "read_supported_rates" ->
                read_supported_rates_request(DEV_IDX, idx)
          [] th.op = "read_control_count" -> HidppRequest_new(DEV_IDX, idx, 0, <<>>)
          [] th.op = "get_current_profile" -> HidppRequest_new(DEV_IDX, idx, 2, <<>>)

\* the request an operation sends after its lookup, to the index it resolved
command_request(ts, t) ==
    LET th == ts[t]
        idx == th.feature_idx
    IN  CASE th.op = "read_dpi" -> read_dpi_request(DEV_IDX, idx)
          [] th.op = "write_dpi" -> write_dpi_request(DEV_IDX, idx, th.validated)
          [] th.op = "read_report_rate" -> read_report_rate_request(DEV_IDX, idx)
          [] th.op = "write_report_rate" ->
                write_report_rate_request(DEV_IDX, idx, th.rate)
          [] th.op = "read_supported_rates" ->
                read_supported_rates_request(DEV_IDX, idx)
          [] th.op = "read_control_count" -> HidppRequest_new(DEV_IDX, idx, 0, <<>>)
          [] th.op = "get_current_profile" -> HidppRequest_new(DEV_IDX, idx, 2, <<>>)

\* what an operation returns for the response to that request
command_result(th, resp) ==
    CASE th.op = "read_dpi" -> Ok(read_dpi_value(resp))
      [] th.op = "write_dpi" -> Ok(th.validated)
      [] th.op = "read_report_rate" -> interval_to_rate(resp.params[1])
      [] th.op = "write_report_rate" -> Ok(NoVal)
      [] th.op = "read_supported_rates" ->
            Ok(supported_rates(resp.params[1], RateIntervals))
      [] th.op = "read_control_count" -> Ok(resp.params[1])
      [] th.op = "get_current_profile" -> Ok(<<resp.params[1], resp.params[2]>>)

(***************************************************************************)
(* gui/src/main.rs: the application state and its message handlers.        *)
(***************************************************************************)
DEVICE_INDEX_CANDIDATES == <<255, 1>>

\* Profile::default, which App::new starts from (load_profile always fails)
Profile_default ==
    [dpi |-> 800, polling_rate |-> "Hz1000",
     buttons |-> <<"LeftClick", "RightClick", "MiddleClick", "Back", "Forward",
                   "DpiCycleUp">>]

\* ApplySettings at rest: no candidate tried, nothing sent
NoApply ==
    [pc |-> "idle", candidate |-> 0, write |-> 0, stage |-> "", feature_idx |-> 0,
     cid |-> 0, last_error |-> None, tried |-> <<>>,
     started |-> <<>>, frames |-> <<>>, accepted |-> <<>>, errors |-> <<>>,
     result |-> Err(NoError)]

NoMessage == [kind |-> "", index |-> usize(0, 0), value |-> 0, action |-> "", text |-> <<>>]

\* App::new
App_new ==
    [dpi |-> Profile_default.dpi,
     polling_rate |-> Profile_default.polling_rate,
     buttons |-> [i \in 1..G502_BUTTON_COUNT |-> Profile_default.buttons[i]],
     custom_cids |-> [i \in 1..G502_BUTTON_COUNT |-> <<>>],
     connected |-> FALSE,
     status |-> "Scanning for devices...",
     message |-> NoMessage,
     apply |-> NoApply]

\* idx < G502_BUTTON_COUNT on usize
index_in_range(idx) == idx.hi = 0 /\ idx.lo < G502_BUTTON_COUNT

\* variant of update: DpiChanged stores the slider value as it came and
\* ButtonChanged writes to the slot the index wraps to
update_unchecked(a, message) ==
    LET b == [a EXCEPT !.message = message, !.apply = NoApply] IN
    CASE message.kind = "DpiChanged" -> [b EXCEPT !.dpi = message.value]
      [] message.kind = "PollingRateSelected" -> [b EXCEPT !.polling_rate = message.value]
      [] message.kind = "ButtonChanged" ->
            [b EXCEPT !.buttons[(message.index.lo % G502_BUTTON_COUNT) + 1] = message.action]
      [] message.kind = "CustomCidChanged" ->
            IF index_in_range(message.index)
            THEN [b EXCEPT !.custom_cids[message.index.lo + 1] = message.text]
            ELSE b
      [] message.kind = "SaveProfile" -> [b EXCEPT !.status = "Save error"]

\* App::update for the messages that touch nothing but the state; the array
\* slots are numbered from 1.  save_profile fails on every platform.
update(a, message) ==
    LET b == [a EXCEPT !.message = message, !.apply = NoApply] IN
    CASE message.kind = "DpiChanged" ->
            LET v == validate_dpi(message.value) IN
            IF v.ok THEN [b EXCEPT !.dpi = v.val] ELSE b
      [] message.kind = "PollingRateSelected" -> [b EXCEPT !.polling_rate = message.value]
      [] message.kind = "ButtonChanged" ->
            IF index_in_range(message.index)
            THEN [b EXCEPT !.buttons[message.index.lo + 1] = message.action]
            ELSE b
      [] message.kind = "CustomCidChanged" ->
            IF index_in_range(message.index)
            THEN [b EXCEPT !.custom_cids[message.index.lo + 1] = message.text]
            ELSE b
      [] message.kind = "SaveProfile" -> [b EXCEPT !.status = "Save error"]

\* App::poll_device on what discover_devices returned
poll_device(a, found) ==
    CASE found = "some" ->
            [a EXCEPT !.connected = TRUE,
                      !.status = IF ~a.connected THEN "Connected" ELSE a.status]
      [] found = "none" ->
            [a EXCEPT !.connected = FALSE,
                      !.status = IF a.connected THEN "Device disconnected."
                                 ELSE "No Logitech G mice found."]
      [] found = "error" -> [a EXCEPT !.connected = FALSE, !.status = "Scan error"]

\* parse_custom_cid: trim, drop one "0x" or "0X", then u16::from_str_radix(raw, 16)
\* (one leading "+" allowed, at least one digit, no overflow)
parse_custom_cid(input) ==
    LET blank(c) == c \in {" ", "\t", "\n"}
        first == IF \E i \in 1..Len(input) : ~blank(input[i])
                 THEN CHOOSE i \in 1..Len(input) :
                        ~blank(input[i]) /\ \A j \in 1..(i - 1) : blank(input[j])
                 ELSE 1
        last == IF \E i \in 1..Len(input) : ~blank(input[i])
                THEN CHOOSE i \in 1..Len(input) :
                        ~blank(input[i]) /\ \A j \in (i + 1)..Len(input) : blank(input[j])
                ELSE 0
        trimmed == SubSeq(input, first, last)
        prefixed == Len(trimmed) >= 2 /\ trimmed[1] = "0" /\ trimmed[2] \in {"x", "X"}
        raw == IF prefixed THEN SubSeq(trimmed, 3, Len(trimmed)) ELSE trimmed
        digits == IF raw # <<>> /\ raw[1] = "+" THEN Tail(raw) ELSE raw
        hex == <<"0","1","2","3","4","5","6","7","8","9","a","b","c","d","e","f">>
        is_hex(c) == \E k \in 1..16 : hex[k] = to_lowercase(<<c>>)[1]
        val(c) == (CHOOSE k \in 1..16 : hex[k] = to_lowercase(<<c>>)[1]) - 1
        acc[n \in 0..Len(digits)] ==
            IF n = 0 THEN 0
            ELSE IF acc[n - 1] > U16_MAX THEN acc[n - 1]
            ELSE acc[n - 1] * 16 + val(digits[n])
    IN  IF trimmed = <<>> THEN None
        ELSE IF digits = <<>> \/ \E i \in 1..Len(digits) : ~is_hex(digits[i]) THEN None
        ELSE IF acc[Len(digits)] > U16_MAX THEN None
        ELSE Some(acc[Len(digits)])

\* the writes of ApplySettings in order: 1 is write_dpi, 2 write_report_rate,
\* 3..8 write_button_mapping for the buttons 0..5
ApplyWrites == 1..(2 + G502_BUTTON_COUNT)

\* the feature the write looks up
apply_feature(write) ==
    IF write = 1 THEN ADJUSTABLE_DPI
    ELSE IF write = 2 THEN REPORT_RATE
    ELSE REPROG_CONTROLS_V4

\* the validation a write makes before it sends anything
apply_validation(a) ==
    LET ap == a.apply IN
    IF ap.write = 1 THEN write_dpi_validated(a.dpi)
    ELSE IF ap.write = 2 THEN Ok(NoVal)
    ELSE validate_button_index(usize(0, ap.write - 3))

\* the next frame of the write in progress
apply_request(a) ==
    LET ap == a.apply
        d == DEVICE_INDEX_CANDIDATES[ap.candidate]
    IN  CASE ap.stage = "lookup" -> lookup_request(d, apply_feature(ap.write))
          [] ap.stage = "info" -> control_info_request(d, ap.feature_idx, ap.write - 3)
          [] ap.stage = "set" /\ ap.write = 1 ->
                write_dpi_request(d, ap.feature_idx, write_dpi_validated(a.dpi).val)
          [] ap.stage = "set" /\ ap.write = 2 ->
                write_report_rate_request(d, ap.feature_idx, a.polling_rate)
          [] ap.stage = "set" /\ ap.write > 2 ->
                set_control_reporting_request(d, ap.feature_idx, ap.cid,
                                              action_to_cid(a.buttons[ap.write - 2]))

\* what the write in progress makes of the answer to that frame
apply_outcome(a, answer) ==
    LET ap == a.apply
        d == DEVICE_INDEX_CANDIDATES[ap.candidate]
    IN  CASE ap.stage = "lookup" ->
                lookup_feature_index(d, apply_feature(ap.write), answer).res
          [] ap.stage = "info" ->
                LET info == read_control_info_with_feature(d, ap.feature_idx,
                                                           ap.write - 3, answer).res
                IN  IF info.ok THEN Ok(info.val.cid) ELSE info
          [] ap.stage = "set" -> hidpp_request(apply_request(a), answer).res

\* last_error.unwrap_or_else(|| Error::DeviceNotFound("no usable device index"))
unwrap_last(last_error) ==
    IF last_error = None
    THEN DeviceNotFound(<<"n","o"," ","u","s","a","b","l","e"," ","d","e","v","i","c","e"," ","i","n","d","e","x">>)
    ELSE last_error[1]

\* variant of with_device_index_failed: the error of the first candidate is
\* the one kept
with_device_index_failed_first_error(a, e) ==
    LET ap == a.apply
        errors == Append(ap.errors, e)
    IN  IF ap.candidate < Len(DEVICE_INDEX_CANDIDATES)
        THEN [a EXCEPT !.apply = [ap EXCEPT !.candidate = ap.candidate + 1,
                                            !.write = 1, !.stage = "lookup",
                                            !.last_error = Some(e),
                                            !.errors = errors,
                                            !.tried = Append(ap.tried,
                                                DEVICE_INDEX_CANDIDATES[ap.candidate + 1]),
                                            !.started = Append(ap.started,
                                                [dev |-> DEVICE_INDEX_CANDIDATES[ap.candidate + 1],
                                                 write |-> 1])]]
        ELSE [a EXCEPT !.status = "Apply error",
                       !.apply = [ap EXCEPT !.pc = "done",
                                            !.errors = errors,
                                            !.result = Err(unwrap_last(ap.last_error))]]

\* with_device_index when op(idx) returned Err(e): the error is kept and the
\* next candidate runs the closure from its first write; after the last
\* candidate the kept error is returned
with_device_index_failed(a, e) ==
    LET ap == a.apply
        errors == Append(ap.errors, e)
    IN  IF ap.candidate < Len(DEVICE_INDEX_CANDIDATES)
        THEN [a EXCEPT !.apply = [ap EXCEPT !.candidate = ap.candidate + 1,
                                            !.write = 1, !.stage = "lookup",
                                            !.last_error = Some(e),
                                            !.errors = errors,
                                            !.tried = Append(ap.tried,
                                                DEVICE_INDEX_CANDIDATES[ap.candidate + 1]),
                                            !.started = Append(ap.started,
                                                [dev |-> DEVICE_INDEX_CANDIDATES[ap.candidate + 1],
                                                 write |-> 1])]]
        ELSE [a EXCEPT !.status = "Apply error",
                       !.apply = [ap EXCEPT !.pc = "done",
                                            !.last_error = Some(e),
                                            !.errors = errors,
                                            !.result = Err(unwrap_last(Some(e)))]]

\* one step of the closure of ApplySettings: the write in progress validates
\* (ok is FALSE when it refused before sending) or has got the answer to its
\* frame; a failed step fails the closure, the last set frame ends it
apply_step(a, sent_frame, outcome) ==
    LET ap == a.apply
        d == DEVICE_INDEX_CANDIDATES[ap.candidate]
        logged == [ap EXCEPT !.frames = ap.frames \o sent_frame]
        b == [a EXCEPT !.apply = logged]
    IN  IF ~outcome.ok THEN with_device_index_failed(b, outcome.err)
        ELSE IF ap.stage = "lookup"
        THEN [b EXCEPT !.apply.feature_idx = outcome.val,
                       !.apply.stage = IF ap.write > 2 THEN "info" ELSE "set"]
        ELSE IF ap.stage = "info"
        THEN [b EXCEPT !.apply.cid = outcome.val, !.apply.stage = "set"]
        ELSE
            LET accepted == Append(ap.accepted, [dev |-> d, write |-> ap.write]) IN
            IF ap.write < 2 + G502_BUTTON_COUNT
            THEN [b EXCEPT !.apply.accepted = accepted,
                           !.apply.write = ap.write + 1,
                           !.apply.stage = "lookup",
                           !.apply.started = Append(ap.started,
                                                    [dev |-> d, write |-> ap.write + 1])]
            ELSE [b EXCEPT !.status = "Applied",
                           !.apply.accepted = accepted,
                           !.apply.pc = "done",
                           !.apply.result = Ok(NoVal)]

\* answers the transport gives the GUI: a short and a long report that echo
\* the frame, and a timeout
ApplyAnswers(req) ==
    LET frame == encode(req).val
        echo(id) == <<id, frame[2], frame[3], frame[4]>>
    IN  {Ok(echo(SHORT_REPORT_ID) \o <<7, 0, 0>>),
         Ok(echo(LONG_REPORT_ID) \o <<7, 83, 16, 0, 86>> \o Zeros(11)),
         Err(Timeout(M_1S_ELAPSED))}

(***************************************************************************)
(* State machine.                                                          *)
(***************************************************************************)
NoRequest == HidppRequest_new(0, 0, 0, <<>>)

NoArgs ==
    [device_index |-> 0, dpi |-> 0, feature_id |-> 0, req |-> NoRequest,
     max_retries |-> 0, err |-> NoError, data |-> <<>>, hz |-> 0,
     button_index |-> usize(0, 0), action |-> "NoAction", function_id |-> 0,
     cid |-> 0, rate |-> "Hz1000", build |-> [overflow_checks |-> FALSE, log_level |-> "off"]]

NoLocals ==
    [validated |-> 0, feature_idx |-> 0, attempt |-> 0, last_error |-> None,
     cid |-> 0]

NoResult == Err(NoError)

\* no operation in progress
CallerIdle ==
    /\ op = "idle"
    /\ pc = "idle"
    /\ args = NoArgs
    /\ locals = NoLocals
    /\ sent = <<>>
    /\ rcvd = <<>>
    /\ outcomes = <<>>
    /\ result = NoResult

Init ==
    /\ CallerIdle
    /\ device = G502
    /\ threads = [t \in Threads |-> NoThread]
    /\ app = App_new

\* a call begins (the caller is idle): nothing sent yet
Begin(name, a) ==
    /\ op' = name
    /\ args' = a
    /\ sent' = <<>>
    /\ rcvd' = <<>>
    /\ outcomes' = <<>>
    /\ UNCHANGED <<device, threads, app>>

\* the I/O of one hidpp_request call r is added to the logs
Exchange(r, inner) ==
    /\ sent' = sent \o r.frames
    /\ rcvd' = rcvd \o r.answers
    /\ outcomes' = Append(outcomes, inner)
    /\ UNCHANGED <<device, threads, app>>

\* safety::validate_dpi called on its own
CallValidateDpi ==
    /\ op = "idle"
    /\ \E dpi \in 0..U16_MAX :
            /\ Begin("validate_dpi", [NoArgs EXCEPT !.dpi = dpi])
            /\ pc' = "done"
            /\ result' = validate_dpi(dpi)
            /\ UNCHANGED locals

\* HidppRequest::encode called on its own
CallEncode ==
    /\ op = "idle"
    /\ \E req \in EncodeInputs :
            /\ Begin("encode", [NoArgs EXCEPT !.req = req])
            /\ pc' = "done"
            /\ result' = encode(req)
            /\ UNCHANGED locals

\* HidppResponse::decode called on its own
CallDecode ==
    /\ op = "idle"
    /\ \E data \in DecodeInputs :
            /\ Begin("decode", [NoArgs EXCEPT !.data = data])
            /\ pc' = "done"
            /\ result' = decode(data)
            /\ UNCHANGED locals

\* a request that encodes is encoded and the bytes are decoded again
CallRoundTrip ==
    /\ op = "idle"
    /\ \E req \in EncodeInputs :
            /\ encode(req).ok
            /\ Begin("round_trip", [NoArgs EXCEPT !.req = req, !.data = encode(req).val])
            /\ pc' = "done"
            /\ result' = decode(encode(req).val)
            /\ UNCHANGED locals

\* ErrorClass::classify called on its own
CallClassify ==
    /\ op = "idle"
    /\ \E e \in ErrorInputs :
            /\ Begin("classify", [NoArgs EXCEPT !.err = e])
            /\ pc' = "done"
            /\ result' = Ok(classify(e))
            /\ UNCHANGED locals

\* hidpp_request called on its own
CallHidppRequest ==
    /\ op = "idle"
    /\ \E req \in RequestInputs :
            /\ Begin("hidpp_request", [NoArgs EXCEPT !.req = req])
            /\ pc' = "request"
            /\ UNCHANGED <<locals, result>>

HidppRequestStep ==
    /\ op = "hidpp_request"
    /\ pc = "request"
    /\ \E answer \in AnswersFor(args.req) :
        LET r == hidpp_request(args.req, answer) IN
        /\ Exchange(r, r.res)
        /\ result' = r.res
        /\ pc' = "done"
    /\ UNCHANGED <<op, args, locals>>

\* lookup_feature_index called on its own
CallLookupFeatureIndex ==
    /\ op = "idle"
    /\ \E d \in DeviceIndexes, f \in FeatureIdInputs :
            /\ Begin("lookup_feature_index",
                     [NoArgs EXCEPT !.device_index = d, !.feature_id = f])
            /\ pc' = "lookup"
            /\ UNCHANGED <<locals, result>>

LookupFeatureIndexStep ==
    /\ op = "lookup_feature_index"
    /\ pc = "lookup"
    /\ \E answer \in AnswersFor(lookup_request(args.device_index, args.feature_id)) :
        LET r == lookup_feature_index(args.device_index, args.feature_id, answer)
            inner == hidpp_request(lookup_request(args.device_index, args.feature_id),
                                   answer).res
        IN  /\ Exchange(r, inner)
            /\ result' = r.res
            /\ pc' = "done"
    /\ UNCHANGED <<op, args, locals>>

\* send_with_retry
CallSendWithRetry ==
    /\ op = "idle"
    /\ \E req \in RequestInputs, n \in 0..MaxRetriesArg :
            /\ Begin("send_with_retry", [NoArgs EXCEPT !.req = req, !.max_retries = n])
            /\ pc' = "loop"
            /\ locals' = NoLocals
            /\ UNCHANGED result

SendWithRetryAttempt ==
    /\ op = "send_with_retry"
    /\ pc = "loop"
    /\ \E answer \in AnswersFor(args.req) :
        LET r == hidpp_request(args.req, answer)
            next == send_with_retry_iter(r.res, locals.attempt, args.max_retries,
                                         locals.last_error)
        IN  /\ Exchange(r, r.res)
            /\ pc' = next.pc
            /\ result' = next.result
            /\ locals' = [locals EXCEPT !.attempt = next.attempt,
                                        !.last_error = next.last_error]
    /\ UNCHANGED <<op, args>>

\* write_dpi: validation, then the feature lookup, then setSensorDpi
CallWriteDpi ==
    /\ op = "idle"
    /\ \E d \in DeviceIndexes, dpi \in DpiInputs :
            LET v == write_dpi_validated(dpi) IN
            /\ Begin("write_dpi", [NoArgs EXCEPT !.device_index = d, !.dpi = dpi])
            /\ IF v.ok
               THEN /\ pc' = "lookup"
                    /\ locals' = [NoLocals EXCEPT !.validated = v.val]
                    /\ UNCHANGED result
               ELSE /\ pc' = "done"
                    /\ result' = Err(v.err)
                    /\ UNCHANGED locals

WriteDpiLookup ==
    /\ op = "write_dpi"
    /\ pc = "lookup"
    /\ \E answer \in AnswersFor(lookup_request(args.device_index, ADJUSTABLE_DPI)) :
        LET r == lookup_feature_index(args.device_index, ADJUSTABLE_DPI, answer)
            inner == hidpp_request(lookup_request(args.device_index, ADJUSTABLE_DPI),
                                   answer).res
        IN  /\ Exchange(r, inner)
            /\ IF r.res.ok
               THEN /\ pc' = "set"
                    /\ locals' = [locals EXCEPT !.feature_idx = r.res.val]
                    /\ UNCHANGED result
               ELSE /\ pc' = "done"
                    /\ result' = Err(r.res.err)
                    /\ UNCHANGED locals
    /\ UNCHANGED <<op, args>>

WriteDpiSet ==
    /\ op = "write_dpi"
    /\ pc = "set"
    /\ LET req == write_dpi_request(args.device_index, locals.feature_idx,
                                    locals.validated)
       IN  \E answer \in AnswersFor(req) :
            LET r == hidpp_request(req, answer) IN
            /\ Exchange(r, r.res)
            /\ result' = IF r.res.ok THEN Ok(locals.validated) ELSE Err(r.res.err)
            /\ pc' = "done"
    /\ UNCHANGED <<op, args, locals>>

\* safety::validate_polling_rate called on its own
CallValidatePollingRate ==
    /\ op = "idle"
    /\ \E hz \in 0..U16_MAX :
            /\ Begin("validate_polling_rate", [NoArgs EXCEPT !.hz = hz])
            /\ pc' = "done"
            /\ result' = validate_polling_rate(hz)
            /\ UNCHANGED locals

CallCheckDeviceStatus ==
    /\ op = "idle"
    /\ \E d \in DeviceIndexes :
            Begin("check_device_status", [NoArgs EXCEPT !.device_index = d])
    /\ pc' = "ping"
    /\ UNCHANGED <<locals, result>>

\* the one ping and the match on its result; result carries the DeviceStatus
CheckDeviceStatusPing ==
    /\ op = "check_device_status"
    /\ pc = "ping"
    /\ LET ping == ping_request(args.device_index)
       IN  \E answer \in AnswersFor(ping) :
            LET r == hidpp_request(ping, answer) IN
            /\ Exchange(r, r.res)
            /\ result' = Ok(device_status(r.res))
            /\ pc' = "done"
    /\ UNCHANGED <<op, args, locals>>

CallReadDpi ==
    /\ op = "idle"
    /\ \E d \in DeviceIndexes :
            Begin("read_dpi", [NoArgs EXCEPT !.device_index = d])
    /\ pc' = "lookup"
    /\ UNCHANGED <<locals, result>>

ReadDpiLookup ==
    /\ op = "read_dpi"
    /\ pc = "lookup"
    /\ \E answer \in AnswersFor(lookup_request(args.device_index, ADJUSTABLE_DPI)) :
        LET r == lookup_feature_index(args.device_index, ADJUSTABLE_DPI, answer)
            inner == hidpp_request(lookup_request(args.device_index, ADJUSTABLE_DPI),
                                   answer).res
        IN  /\ Exchange(r, inner)
            /\ IF r.res.ok
               THEN /\ pc' = "get"
                    /\ locals' = [locals EXCEPT !.feature_idx = r.res.val]
                    /\ UNCHANGED result
               ELSE /\ pc' = "done"
                    /\ result' = Err(r.res.err)
                    /\ UNCHANGED locals
    /\ UNCHANGED <<op, args>>

ReadDpiGet ==
    /\ op = "read_dpi"
    /\ pc = "get"
    /\ LET req == read_dpi_request(args.device_index, locals.feature_idx)
       IN  \E answer \in AnswersFor(req) :
            LET r == hidpp_request(req, answer) IN
            /\ Exchange(r, r.res)
            /\ result' = IF r.res.ok THEN Ok(read_dpi_value(r.res.val))
                         ELSE Err(r.res.err)
            /\ pc' = "done"
    /\ UNCHANGED <<op, args, locals>>

CallReadReportRate ==
    /\ op = "idle"
    /\ \E d \in DeviceIndexes :
            Begin("read_report_rate", [NoArgs EXCEPT !.device_index = d])
    /\ pc' = "lookup"
    /\ UNCHANGED <<locals, result>>

ReadReportRateLookup ==
    /\ op = "read_report_rate"
    /\ pc = "lookup"
    /\ \E answer \in AnswersFor(lookup_request(args.device_index, REPORT_RATE)) :
        LET r == lookup_feature_index(args.device_index, REPORT_RATE, answer)
            inner == hidpp_request(lookup_request(args.device_index, REPORT_RATE),
                                   answer).res
        IN  /\ Exchange(r, inner)
            /\ IF r.res.ok
               THEN /\ pc' = "get"
                    /\ locals' = [locals EXCEPT !.feature_idx = r.res.val]
                    /\ UNCHANGED result
               ELSE /\ pc' = "done"
                    /\ result' = Err(r.res.err)
                    /\ UNCHANGED locals
    /\ UNCHANGED <<op, args>>

ReadReportRateGet ==
    /\ op = "read_report_rate"
    /\ pc = "get"
    /\ LET req == read_report_rate_request(args.device_index, locals.feature_idx)
       IN  \E answer \in AnswersFor(req) :
            LET r == hidpp_request(req, answer) IN
            /\ Exchange(r, r.res)
            /\ result' = IF r.res.ok THEN interval_to_rate(r.res.val.params[1])
                         ELSE Err(r.res.err)
            /\ pc' = "done"
    /\ UNCHANGED <<op, args, locals>>

\* safety::validate_feature_id called on its own
CallValidateFeatureId ==
    /\ op = "idle"
    /\ \E f \in 0..U16_MAX :
            /\ Begin("validate_feature_id", [NoArgs EXCEPT !.feature_id = f])
            /\ pc' = "done"
            /\ result' = validate_feature_id(f)
            /\ UNCHANGED locals

\* safety::validate_hidpp_request called on its own
CallValidateHidppRequest ==
    /\ op = "idle"
    /\ \E f \in FeatureIdInputs, fn \in Byte :
            /\ Begin("validate_hidpp_request",
                     [NoArgs EXCEPT !.feature_id = f, !.function_id = fn])
            /\ pc' = "done"
            /\ result' = validate_hidpp_request(f, fn)
            /\ UNCHANGED locals

\* safety::validate_button_index called on its own
CallValidateButtonIndex ==
    /\ op = "idle"
    /\ \E i \in ButtonIndexInputs :
            /\ Begin("validate_button_index", [NoArgs EXCEPT !.button_index = i])
            /\ pc' = "done"
            /\ result' = validate_button_index(i)
            /\ UNCHANGED locals

\* buttons::cid_to_action called on its own; it has no error return
CallCidToAction ==
    /\ op = "idle"
    /\ \E cid \in 0..U16_MAX :
            /\ Begin("cid_to_action", [NoArgs EXCEPT !.cid = cid])
            /\ pc' = "done"
            /\ result' = Ok(cid_to_action(cid))
            /\ UNCHANGED locals

\* buttons::action_to_cid, and the CID it gives handed to cid_to_action
CallActionToCid ==
    /\ op = "idle"
    /\ \E a \in ButtonActions :
            /\ Begin("action_to_cid",
                     [NoArgs EXCEPT !.action = a, !.cid = action_to_cid(a)])
            /\ pc' = "done"
            /\ result' = Ok(cid_to_action(action_to_cid(a)))
            /\ UNCHANGED locals

CallReadButtonMapping ==
    /\ op = "idle"
    /\ \E d \in DeviceIndexes, i \in ButtonIndexInputs :
            LET v == validate_button_index(i) IN
            /\ Begin("read_button_mapping",
                     [NoArgs EXCEPT !.device_index = d, !.button_index = i])
            /\ IF v.ok
               THEN /\ pc' = "lookup"
                    /\ UNCHANGED result
               ELSE /\ pc' = "done"
                    /\ result' = Err(v.err)
    /\ UNCHANGED locals

ReadButtonMappingLookup ==
    /\ op = "read_button_mapping"
    /\ pc = "lookup"
    /\ \E answer \in AnswersFor(lookup_request(args.device_index, REPROG_CONTROLS_V4)) :
        LET r == lookup_feature_index(args.device_index, REPROG_CONTROLS_V4, answer)
            inner == hidpp_request(lookup_request(args.device_index, REPROG_CONTROLS_V4),
                                   answer).res
        IN  /\ Exchange(r, inner)
            /\ IF r.res.ok
               THEN /\ pc' = "info"
                    /\ locals' = [locals EXCEPT !.feature_idx = r.res.val]
                    /\ UNCHANGED result
               ELSE /\ pc' = "done"
                    /\ result' = Err(r.res.err)
                    /\ UNCHANGED locals
    /\ UNCHANGED <<op, args>>

ReadButtonMappingInfo ==
    /\ op = "read_button_mapping"
    /\ pc = "info"
    /\ LET index == as_u32(args.button_index) % 256
           req == control_info_request(args.device_index, locals.feature_idx, index)
       IN  \E answer \in AnswersFor(req) :
            LET r == read_control_info_with_feature(args.device_index,
                                                    locals.feature_idx, index, answer)
            IN  /\ Exchange(r, hidpp_request(req, answer).res)
                /\ IF r.res.ok
                   THEN /\ pc' = "reporting"
                        /\ locals' = [locals EXCEPT !.cid = r.res.val.cid]
                        /\ UNCHANGED result
                   ELSE /\ pc' = "done"
                        /\ result' = Err(r.res.err)
                        /\ UNCHANGED locals
    /\ UNCHANGED <<op, args>>

ReadButtonMappingReporting ==
    /\ op = "read_button_mapping"
    /\ pc = "reporting"
    /\ LET req == control_reporting_request(args.device_index, locals.feature_idx,
                                            locals.cid)
       IN  \E answer \in AnswersFor(req) :
            LET r == hidpp_request(req, answer) IN
            /\ Exchange(r, r.res)
            /\ result' = IF r.res.ok
                         THEN Ok(cid_to_action(remap_cid(r.res.val, locals.cid)))
                         ELSE Err(r.res.err)
            /\ pc' = "done"
    /\ UNCHANGED <<op, args, locals>>

\* read_control_info: the feature lookup, then getControlInfo for a control
\* index; its check of the response is that of read_control_info_with_feature
CallReadControlInfo ==
    /\ op = "idle"
    /\ \E d \in DeviceIndexes, index \in {0, 5, 9} :
            /\ Begin("read_control_info",
                     [NoArgs EXCEPT !.device_index = d, !.button_index = usize(0, index)])
            /\ pc' = "lookup"
            /\ UNCHANGED <<locals, result>>

ReadControlInfoLookup ==
    /\ op = "read_control_info"
    /\ pc = "lookup"
    /\ \E answer \in AnswersFor(lookup_request(args.device_index, REPROG_CONTROLS_V4)) :
        LET r == lookup_feature_index(args.device_index, REPROG_CONTROLS_V4, answer)
            inner == hidpp_request(lookup_request(args.device_index, REPROG_CONTROLS_V4),
                                   answer).res
        IN  /\ Exchange(r, inner)
            /\ IF r.res.ok
               THEN /\ pc' = "info"
                    /\ locals' = [locals EXCEPT !.feature_idx = r.res.val]
                    /\ UNCHANGED result
               ELSE /\ pc' = "done"
                    /\ result' = Err(r.res.err)
                    /\ UNCHANGED locals
    /\ UNCHANGED <<op, args>>

ReadControlInfoGet ==
    /\ op = "read_control_info"
    /\ pc = "info"
    /\ LET index == args.button_index.lo
           req == control_info_request(args.device_index, locals.feature_idx, index)
       IN  \E answer \in AnswersFor(req) :
            LET r == read_control_info_with_feature(args.device_index,
                                                    locals.feature_idx, index, answer)
            IN  /\ Exchange(r, hidpp_request(req, answer).res)
                /\ result' = r.res
                /\ pc' = "done"
    /\ UNCHANGED <<op, args, locals>>

CallWriteButtonMapping ==
    /\ op = "idle"
    /\ \E d \in DeviceIndexes, i \in ButtonIndexInputs, a \in ButtonActions :
            LET v == validate_button_index(i) IN
            /\ Begin("write_button_mapping",
                     [NoArgs EXCEPT !.device_index = d, !.button_index = i,
                                    !.action = a])
            /\ IF v.ok
               THEN /\ pc' = "lookup"
                    /\ UNCHANGED result
               ELSE /\ pc' = "done"
                    /\ result' = Err(v.err)
    /\ UNCHANGED locals

WriteButtonMappingLookup ==
    /\ op = "write_button_mapping"
    /\ pc = "lookup"
    /\ \E answer \in AnswersFor(lookup_request(args.device_index, REPROG_CONTROLS_V4)) :
        LET r == lookup_feature_index(args.device_index, REPROG_CONTROLS_V4, answer)
            inner == hidpp_request(lookup_request(args.device_index, REPROG_CONTROLS_V4),
                                   answer).res
        IN  /\ Exchange(r, inner)
            /\ IF r.res.ok
               THEN /\ pc' = "info"
                    /\ locals' = [locals EXCEPT !.feature_idx = r.res.val]
                    /\ UNCHANGED result
               ELSE /\ pc' = "done"
                    /\ result' = Err(r.res.err)
                    /\ UNCHANGED locals
    /\ UNCHANGED <<op, args>>

WriteButtonMappingInfo ==
    /\ op = "write_button_mapping"
    /\ pc = "info"
    /\ LET index == as_u32(args.button_index) % 256
           req == control_info_request(args.device_index, locals.feature_idx, index)
       IN  \E answer \in AnswersFor(req) :
            LET r == read_control_info_with_feature(args.device_index,
                                                    locals.feature_idx, index, answer)
            IN  /\ Exchange(r, hidpp_request(req, answer).res)
                /\ IF r.res.ok
                   THEN /\ pc' = "set"
                        /\ locals' = [locals EXCEPT !.cid = r.res.val.cid]
                        /\ UNCHANGED result
                   ELSE /\ pc' = "done"
                        /\ result' = Err(r.res.err)
                        /\ UNCHANGED locals
    /\ UNCHANGED <<op, args>>

WriteButtonMappingSet ==
    /\ op = "write_button_mapping"
    /\ pc = "set"
    /\ LET req == set_control_reporting_request(args.device_index, locals.feature_idx,
                                                locals.cid, action_to_cid(args.action))
       IN  \E answer \in AnswersFor(req) :
            LET r == hidpp_request(req, answer) IN
            /\ Exchange(r, r.res)
            /\ result' = IF r.res.ok THEN Ok(NoVal) ELSE Err(r.res.err)
            /\ pc' = "done"
    /\ UNCHANGED <<op, args, locals>>

\* the operation has returned; the caller is free for the next call
Return ==
    /\ pc = "done"
    /\ op' = "idle"
    /\ pc' = "idle"
    /\ args' = NoArgs
    /\ locals' = NoLocals
    /\ sent' = <<>>
    /\ rcvd' = <<>>
    /\ outcomes' = <<>>
    /\ result' = NoResult
    /\ UNCHANGED <<device, threads, app>>

Next ==
    \/ CallValidateDpi
    \/ CallClassify
    \/ CallEncode
    \/ CallDecode
    \/ CallRoundTrip
    \/ CallHidppRequest
    \/ HidppRequestStep
    \/ CallLookupFeatureIndex
    \/ LookupFeatureIndexStep
    \/ CallSendWithRetry
    \/ SendWithRetryAttempt
    \/ CallWriteDpi
    \/ WriteDpiLookup
    \/ WriteDpiSet
    \/ CallValidatePollingRate
    \/ CallCheckDeviceStatus
    \/ CheckDeviceStatusPing
    \/ CallReadDpi
    \/ ReadDpiLookup
    \/ ReadDpiGet
    \/ CallReadReportRate
    \/ ReadReportRateLookup
    \/ ReadReportRateGet
    \/ CallReadButtonMapping
    \/ ReadButtonMappingLookup
    \/ ReadButtonMappingInfo
    \/ ReadButtonMappingReporting
    \/ CallReadControlInfo
    \/ ReadControlInfoLookup
    \/ ReadControlInfoGet
    \/ CallWriteButtonMapping
    \/ WriteButtonMappingLookup
    \/ WriteButtonMappingInfo
    \/ WriteButtonMappingSet
    \/ Return

Spec == Init /\ [][Next]_vars

\* HidppRequest::new called on its own, with every function byte
CallHidppRequestNew ==
    /\ op = "idle"
    /\ \E d \in DeviceIndexes, fn \in Byte :
            /\ Begin("HidppRequest_new",
                     [NoArgs EXCEPT !.device_index = d, !.function_id = fn])
            /\ pc' = "done"
            /\ result' = Ok(HidppRequest_new(d, 7, fn, <<>>))
            /\ UNCHANGED locals

\* a value validated by the front end is handed to write_dpi, which validates
\* it again before it builds the frame
CallRevalidateDpi ==
    /\ op = "idle"
    /\ \E dpi \in 0..U16_MAX :
            LET first == validate_dpi(dpi) IN
            /\ first.ok
            /\ Begin("revalidate_dpi", [NoArgs EXCEPT !.dpi = dpi])
            /\ pc' = "done"
            /\ locals' = [NoLocals EXCEPT !.validated = first.val]
            /\ result' = write_dpi_validated(first.val)

\* the validators and the CID tables called on their own
FunctionNext ==
    \/ CallValidateDpi
    \/ CallValidatePollingRate
    \/ CallValidateFeatureId
    \/ CallValidateHidppRequest
    \/ CallValidateButtonIndex
    \/ CallCidToAction
    \/ CallActionToCid
    \/ CallHidppRequestNew
    \/ CallRevalidateDpi
    \/ Return

FunctionSpec == Init /\ [][FunctionNext]_vars

(***************************************************************************)
(* Operations against the simulated device.                                *)
(***************************************************************************)
\* send_with_retry with max_retries over the u32 range, under each build
CallSendWithRetryU32 ==
    /\ op = "idle"
    /\ \E req \in RetryRequests, n \in MaxRetriesInputs, build \in Builds :
            /\ Begin("send_with_retry",
                     [NoArgs EXCEPT !.req = req, !.max_retries = n, !.build = build])
            /\ pc' = "loop"
            /\ locals' = [NoLocals EXCEPT !.attempt = u32(0, 0)]
            /\ UNCHANGED result

SendWithRetryU32Attempt ==
    /\ op = "send_with_retry"
    /\ pc = "loop"
    /\ Len(outcomes) < MaxAttempts
    /\ \E answer \in AnswersFor(args.req) :
        LET r == hidpp_request(args.req, answer)
            next == send_with_retry_u32(r.res, locals.attempt, args.max_retries,
                                        locals.last_error, args.build)
        IN  /\ Exchange(r, r.res)
            /\ pc' = next.pc
            /\ result' = next.result
            /\ locals' = [locals EXCEPT !.attempt = next.attempt,
                                        !.last_error = next.last_error]
    /\ UNCHANGED <<op, args>>

RetryNext ==
    \/ CallSendWithRetryU32
    \/ SendWithRetryU32Attempt
    \/ Return

RetrySpec == Init /\ [][RetryNext]_vars

callerVars == <<op, pc, args, locals, sent, rcvd, outcomes, result>>

\* thread t calls one of ops; write_dpi validates before anything is sent
ThreadCall(t, ops) ==
    /\ threads[t].op = "idle"
    /\ \E o \in ops, dpi \in DeviceDpiInputs, rate \in PollingRates :
        LET v == write_dpi_validated(dpi)
            th == [threads[t] EXCEPT !.op = o, !.frames = <<>>, !.answers = <<>>,
                                     !.feature_idx = 0, !.validated = 0,
                                     !.dpi = IF o = "write_dpi" THEN dpi ELSE 0,
                                     !.rate = IF o = "write_report_rate" THEN rate ELSE ""]
        IN  threads' =
                [threads EXCEPT ![t] =
                    IF o = "write_dpi" /\ ~v.ok
                    THEN [th EXCEPT !.pc = "done", !.result = Err(v.err)]
                    ELSE [th EXCEPT !.pc = "lookup",
                                    !.validated = IF o = "write_dpi" THEN v.val ELSE 0]]
    /\ UNCHANGED <<callerVars, device, app>>

\* the feature lookup every operation starts with
ThreadLookup(t) ==
    /\ threads[t].pc = "lookup"
    /\ LET th == threads[t]
           feature_id == feature_of(th.op)
           io == device_send_report(device, encode(lookup_request(DEV_IDX, feature_id)).val)
           r == lookup_feature_index(DEV_IDX, feature_id, io.answer)
           logged == [th EXCEPT !.frames = th.frames \o r.frames,
                                !.answers = th.answers \o r.answers]
       IN  /\ device' = io.device
           /\ threads' =
                [threads EXCEPT ![t] =
                    IF r.res.ok
                    THEN [logged EXCEPT !.pc = "command", !.feature_idx = r.res.val]
                    ELSE [logged EXCEPT !.pc = "done", !.result = Err(r.res.err)]]
    /\ UNCHANGED <<callerVars, app>>

\* the operation's own request and its return value
ThreadCommand(t) ==
    /\ threads[t].pc = "command"
    /\ LET th == threads[t]
           req == command_request(threads, t)
           io == device_send_report(device, encode(req).val)
           r == hidpp_request(req, io.answer)
           res == IF r.res.ok THEN command_result(th, r.res.val) ELSE Err(r.res.err)
       IN  /\ device' = io.device
           /\ threads' =
                [threads EXCEPT ![t] =
                    [th EXCEPT !.pc = "done",
                               !.result = res,
                               !.frames = th.frames \o r.frames,
                               !.answers = th.answers \o r.answers,
                               !.wrote_dpi = IF th.op = "write_dpi" /\ res.ok
                                             THEN th.dpi ELSE th.wrote_dpi,
                               !.wrote_rate = IF th.op = "write_report_rate" /\ res.ok
                                              THEN th.rate ELSE th.wrote_rate]]
    /\ UNCHANGED <<callerVars, app>>

\* the operation has returned; nothing of it is kept but what it wrote
ThreadReturn(t) ==
    /\ threads[t].pc = "done"
    /\ threads' = [threads EXCEPT ![t] =
                        [NoThread EXCEPT !.wrote_dpi = threads[t].wrote_dpi,
                                         !.wrote_rate = threads[t].wrote_rate]]
    /\ UNCHANGED <<callerVars, device, app>>

\* between two operations the device hands out its feature indexes anew
DeviceReindex ==
    /\ \A t \in Threads : threads[t].op = "idle"
    /\ \E table \in FeatureTables \ {device.table} :
            device' = [device EXCEPT !.table = table]
    /\ UNCHANGED <<callerVars, threads, app>>

\* rate-list bitmasks a device may report
RateListSamples == {0, 1, 2, 4, 8, 5, 10, 15, 16, 26, 240, 255}

\* one thread, reads and writes in sequence; the device may start out
\* reporting an interval byte that is no rate, and any rate-list bitmask
DeviceInit ==
    /\ CallerIdle
    /\ \E interval \in {1, 0, 3}, rate_list \in RateListSamples :
            device = [G502 EXCEPT !.interval = interval, !.rate_list = rate_list]
    /\ threads = [t \in Threads |-> NoThread]
    /\ app = App_new

DeviceNext ==
    \/ ThreadCall(1, DeviceOps)
    \/ ThreadLookup(1)
    \/ ThreadCommand(1)
    \/ ThreadReturn(1)
    \/ DeviceReindex

DeviceSpec == DeviceInit /\ [][DeviceNext]_vars

\* several threads, reads only, in any interleaving
ConcurrentNext ==
    \E t \in Threads :
        \/ ThreadCall(t, ReadOps)
        \/ ThreadLookup(t)
        \/ ThreadCommand(t)
        \/ ThreadReturn(t)

ConcurrentSpec == Init /\ [][ConcurrentNext]_vars

(***************************************************************************)
(* The GUI application: messages arrive one at a time; ApplySettings runs  *)
(* to its end before the next message is taken.                            *)
(***************************************************************************)
Message(kind) == [NoMessage EXCEPT !.kind = kind]

\* button indexes a message may carry
GuiIndexes == {usize(0, 0), usize(0, 6), usize(1, 0)}

\* texts typed into a custom CID field
CidTexts == {<<"0","x","0","0","5","3">>, <<"z","z">>}

\* the messages that touch nothing but the state
GuiMessages ==
    {[Message("DpiChanged") EXCEPT !.value = v] : v \in {50, 825, 25600, 25601, 30000}}
    \cup {[Message("PollingRateSelected") EXCEPT !.value = r] : r \in {"Hz500"}}
    \cup {[Message("ButtonChanged") EXCEPT !.index = i, !.action = "Back"] :
             i \in GuiIndexes}
    \cup {[Message("CustomCidChanged") EXCEPT !.index = i, !.text = t] :
             i \in GuiIndexes, t \in CidTexts}
    \cup {Message("SaveProfile")}

GuiUpdate ==
    /\ app.apply.pc # "running"
    /\ \E message \in GuiMessages : app' = update(app, message)
    /\ UNCHANGED <<callerVars, device, threads>>

\* RefreshDevice and PollTick
GuiPoll ==
    /\ app.apply.pc # "running"
    /\ \E kind \in {"RefreshDevice", "PollTick"}, found \in {"some", "none", "error"} :
            app' = poll_device([app EXCEPT !.message = Message(kind), !.apply = NoApply],
                               found)
    /\ UNCHANGED <<callerVars, device, threads>>

\* ApplyCustomCid: the state is left alone but for the status line; the write
\* itself goes through a function of the core that either succeeds or fails
GuiApplyCustomCid ==
    /\ app.apply.pc # "running"
    /\ \E idx \in GuiIndexes, opened \in BOOLEAN, written \in BOOLEAN :
        LET b == [app EXCEPT !.message = [Message("ApplyCustomCid") EXCEPT !.index = idx],
                             !.apply = NoApply]
        IN  app' =
                IF ~index_in_range(idx)
                THEN [b EXCEPT !.status = "Invalid button index"]
                ELSE IF parse_custom_cid(app.custom_cids[idx.lo + 1]) = None
                THEN [b EXCEPT !.status = "Invalid custom CID"]
                ELSE IF ~opened THEN [b EXCEPT !.status = "Connection error"]
                ELSE IF written THEN [b EXCEPT !.status = "Applied custom CID"]
                ELSE [b EXCEPT !.status = "Custom keybind error"]
    /\ UNCHANGED <<callerVars, device, threads>>

\* ApplySettings: the device is opened and with_device_index calls the
\* closure with the first candidate
ApplySettingsOpen ==
    /\ app.apply.pc # "running"
    /\ \E opened \in BOOLEAN :
        LET b == [app EXCEPT !.message = Message("ApplySettings"), !.apply = NoApply]
            first == DEVICE_INDEX_CANDIDATES[1]
        IN  app' =
                IF opened
                THEN [b EXCEPT !.apply = [NoApply EXCEPT !.pc = "running",
                                                         !.candidate = 1,
                                                         !.write = 1,
                                                         !.stage = "lookup",
                                                         !.tried = <<first>>,
                                                         !.started = <<[dev |-> first,
                                                                        write |-> 1]>>]]
                ELSE [b EXCEPT !.status = "Connection error"]
    /\ UNCHANGED <<callerVars, device, threads>>

\* the closure goes on by one frame, or by one refused validation
ApplySettingsStep ==
    /\ app.apply.pc = "running"
    /\ LET v == apply_validation(app) IN
       IF app.apply.stage = "lookup" /\ ~v.ok
       THEN app' = apply_step(app, <<>>, v)
       ELSE LET req == apply_request(app)
                frame == encode(req).val
                sent_frame == [dev |-> frame[2], write |-> app.apply.write,
                               stage |-> app.apply.stage]
            IN  \E answer \in ApplyAnswers(req) :
                    app' = apply_step(app, <<sent_frame>>, apply_outcome(app, answer))
    /\ UNCHANGED <<callerVars, device, threads>>

\* ApplySettings as the application state sees it: the status line tells
\* whether the device opened and whether with_device_index succeeded
GuiApplySettings ==
    /\ app.apply.pc # "running"
    /\ \E status \in {"Connection error", "Applied", "Apply error"} :
            app' = [app EXCEPT !.message = Message("ApplySettings"), !.apply = NoApply,
                               !.status = status]
    /\ UNCHANGED <<callerVars, device, threads>>

\* every message the application handles, device I/O by its outcome
GuiNext ==
    \/ GuiUpdate
    \/ GuiPoll
    \/ GuiApplyCustomCid
    \/ GuiApplySettings

GuiSpec == Init /\ [][GuiNext]_vars

\* the settings are changed and applied; ApplySettings frame by frame
ApplyNext ==
    \/ GuiUpdate
    \/ ApplySettingsOpen
    \/ ApplySettingsStep

ApplySpec == Init /\ [][ApplyNext]_vars

(***************************************************************************)
(* Properties.                                                             *)
(***************************************************************************)
Abs(n) == IF n < 0 THEN -n ELSE n

Last(s) == s[Len(s)]

\* a byte string decode rejects, stated on the bytes
Undecodable(b) ==
    \/ Len(b) < 7
    \/ b[1] \notin {16, 17}
    \/ (b[1] = 17 /\ Len(b) < 20)

\* the result r of an attempt is a failure of class Transient
TransientFailure(r) == ~r.ok /\ classify(r.err) = "Transient"

\* the result r of an attempt is a failure of a class other than Transient
FatalFailure(r) ==
    /\ ~r.ok
    /\ classify(r.err) \in {"Disconnected", "PermissionDenied", "Protocol",
                            "InvalidResponse"}

\* C1: write_dpi validates before any I/O: for a dpi outside [100, 25600] it
\* has returned an error and send_report was never called, not even for the
\* feature lookup.
C1_WriteDpiValidatesFirst ==
    (op = "write_dpi" /\ (args.dpi < 100 \/ args.dpi > 25600)) =>
        /\ pc = "done"
        /\ ~result.ok
        /\ result.err.kind = "OutOfRange"
        /\ sent = <<>>
        /\ rcvd = <<>>
        /\ outcomes = <<>>

C1_Witness ==
    /\ op = "write_dpi"
    /\ args.dpi = 30000
    /\ pc = "done"
    /\ ~result.ok
    /\ sent = <<>>

\* C2: no unvalidated DPI reaches the device: every set-DPI frame write_dpi
\* sends (function 2 of the resolved feature index) is a short frame carrying
\* sensor index 0 and a big-endian DPI that is within [100, 25600], a multiple
\* of 50 and equal to validate_dpi(input); a successful write_dpi has sent that
\* frame and returns that value.
C2_OnlyValidatedDpiSent ==
    op = "write_dpi" =>
        /\ \A i \in 1..Len(sent) :
            sent[i][4] \div 16 = 2 =>
                LET value == sent[i][6] * 256 + sent[i][7] IN
                /\ i = 2
                /\ rcvd[1].ok
                /\ sent[i][1] = 16
                /\ Len(sent[i]) = 7
                /\ sent[i][2] = args.device_index
                /\ sent[i][3] = rcvd[1].val[5]
                /\ sent[i][4] = 33
                /\ sent[i][5] = 0
                /\ 100 <= value /\ value <= 25600
                /\ value % 50 = 0
                /\ validate_dpi(args.dpi) = Ok(value)
                /\ (pc = "done" /\ result.ok) => result = Ok(value)
        /\ (pc = "done" /\ result.ok) => (Len(sent) = 2 /\ sent[2][4] \div 16 = 2)
        /\ Len(sent) >= 1 => sent[1][4] \div 16 = 0

C2_Witness ==
    /\ op = "write_dpi"
    /\ args.dpi = 810
    /\ pc = "done"
    /\ result = Ok(800)
    /\ Len(sent) = 2
    /\ sent[2] = <<16, args.device_index, 7, 33, 0, 3, 32>>

\* C3: for a feature identifier outside the allow-list, lookup_feature_index
\* is rejected before any frame is built: it fails and send_report is never
\* called.
C3_DisallowedFeatureNeverSent ==
    (op = "lookup_feature_index" /\ args.feature_id \notin ALLOWED_FEATURE_IDS) =>
        /\ sent = <<>>
        /\ pc = "done" => (~result.ok /\ result.err.kind = "OutOfRange")

\* C4: validate_dpi(d) fails with OutOfRange iff d < 100 or d > 25600;
\* otherwise it returns the multiple of 50 nearest to d, ties rounded up,
\* which lies within [100, 25600]; d + 25 stays within 16 bits.
C4_ValidateDpiRounds ==
    op = "validate_dpi" =>
        LET d == args.dpi
            r == result.val
        IN  /\ pc = "done"
            /\ ~result.ok <=> (d < 100 \/ d > 25600)
            /\ ~result.ok => result.err = OutOfRange("dpi", d, 100, 25600)
            /\ result.ok =>
                /\ r % 50 = 0
                /\ 2 * Abs(r - d) <= 50
                /\ (2 * Abs(r - d) = 50) => r > d
                /\ 100 <= r /\ r <= 25600
                /\ dpi_round_sum(d) <= U16_MAX
            /\ (d = 810) => result = Ok(800)
            /\ (d = 825) => result = Ok(850)
            /\ (d = 130) => result = Ok(150)
            /\ (d = 100) => result = Ok(100)
            /\ (d = 25600) => result = Ok(25600)

C4_Witness ==
    /\ op = "validate_dpi"
    /\ args.dpi = 825
    /\ result = Ok(850)

\* C5: retry bound: when every attempt of send_with_retry failed with a
\* Transient-class error, it has made exactly max_retries + 1 attempts, one
\* send_report each, and returns the error of the last attempt.
C5_RetryBound ==
    (op = "send_with_retry" /\ \A i \in 1..Len(outcomes) : TransientFailure(outcomes[i])) =>
        /\ Len(sent) = Len(outcomes)
        /\ Len(outcomes) <= args.max_retries + 1
        /\ pc = "loop" => Len(outcomes) <= args.max_retries
        /\ pc = "done" =>
            /\ Len(outcomes) = args.max_retries + 1
            /\ result = Err(Last(outcomes).err)
            /\ \A i \in 1..Len(rcvd) : ~rcvd[i].ok

C5_Witness ==
    /\ op = "send_with_retry"
    /\ pc = "done"
    /\ args.max_retries = 3
    /\ Len(sent) = 4
    /\ \A i \in 1..Len(outcomes) : TransientFailure(outcomes[i])
    /\ result = Err(outcomes[4].err)

C7_StopsAtFirstSuccess ==
    op = "send_with_retry" =>
        /\ \A i \in 1..Len(outcomes) :
            outcomes[i].ok =>
                /\ pc = "done"
                /\ i = Len(outcomes)
                /\ i <= args.max_retries + 1
                /\ \A j \in 1..(i - 1) : TransientFailure(outcomes[j])
                /\ result = outcomes[i]
                /\ Len(sent) = i
                /\ rcvd[i].ok
                /\ result.val.params = SubSeq(rcvd[i].val, 5, Len(result.val.params) + 4)
        /\ (pc = "done" /\ result.ok) => (outcomes # <<>> /\ Last(outcomes).ok)

C7_Witness ==
    /\ op = "send_with_retry"
    /\ pc = "done"
    /\ result.ok
    /\ args.max_retries = 3
    /\ Len(outcomes) = 3
    /\ Len(sent) = 3

DisconnectWorded ==
    {M_DISCONNECT_DETECTED, M_DISCONNECT_TIMEOUT, M_NO_SUCH_DEVICE,
     M_HANDLE_NOT_FOUND, M_NOT_FOUND_ACCESS_DENIED}

\* messages that, read without regard to case, hold permission wording
PermissionWorded ==
    {M_ACCESS_IS_DENIED, M_PERMISSION_TIMED_OUT, M_ACCESS_DENIED_BY_OS,
     M_NOT_FOUND_ACCESS_DENIED}

\* messages that, read without regard to case, hold timeout wording
TimeoutWorded ==
    {M_TIMED_OUT_WAITING, M_DISCONNECT_TIMEOUT, M_PERMISSION_TIMED_OUT,
     M_READ_TIMEOUT}

\* the class the priority order gives an error, from the wording tables
ExpectedClass(e) ==
    CASE e.kind = "Timeout" -> "Transient"
      [] e.kind = "PermissionDenied" -> "PermissionDenied"
      [] e.kind = "DeviceNotFound" -> "Disconnected"
      [] e.kind = "HidppProtocol" -> "Protocol"
      [] e.kind = "Hid" /\ e.msg \in DisconnectWorded -> "Disconnected"
      [] e.kind = "Hid" /\ e.msg \notin DisconnectWorded
            /\ e.msg \in PermissionWorded -> "PermissionDenied"
      [] e.kind = "Hid" /\ e.msg \notin DisconnectWorded \cup PermissionWorded
            /\ e.msg \in TimeoutWorded -> "Transient"
      [] OTHER -> "InvalidResponse"

\* C9: classify follows the priority order, first match wins: Timeout ->
\* Transient, PermissionDenied -> PermissionDenied, DeviceNotFound ->
\* Disconnected, HidppProtocol -> Protocol; a Hid message is matched without
\* regard to case against disconnection, then permission, then timeout
\* wording, else InvalidResponse; a message with both disconnection and
\* timeout wording is Disconnected.
C9_ClassifyPriority ==
    op = "classify" =>
        /\ pc = "done"
        /\ result = Ok(ExpectedClass(args.err))
        /\ (args.err = Hid(M_DISCONNECT_TIMEOUT)) => result = Ok("Disconnected")

C9_Witness ==
    /\ op = "classify"
    /\ args.err = Hid(M_DISCONNECT_TIMEOUT)
    /\ result = Ok("Disconnected")

\* C10: error-frame detection is uniform: no hidpp_request call returns Ok
\* with a response whose feature_index is 0xFF; for a decodable response with
\* byte 2 = 0xFF it returns the protocol error carrying params[0] as feature
\* and params[2] as code, and no response.
C10_ErrorFrameDetected ==
    /\ \A i \in 1..Len(outcomes) :
        outcomes[i].ok => outcomes[i].val.feature_index # 255
    /\ (op = "hidpp_request" /\ pc = "done") =>
        /\ result.ok => result.val.feature_index # 255
        /\ (Len(rcvd) = 1 /\ rcvd[1].ok /\ ~Undecodable(rcvd[1].val)
                /\ rcvd[1].val[3] = 255) =>
            /\ result = Err(HidppProtocol(rcvd[1].val[5], rcvd[1].val[7]))
            /\ result.val = NoVal

C10_Witness ==
    /\ op = "hidpp_request"
    /\ pc = "done"
    /\ Len(rcvd) = 1
    /\ rcvd[1] = Ok(<<16, 1, 255, 17, 7, 0, 2>>)
    /\ result = Err(HidppProtocol(7, 2))

\* C11: hidpp_request performs one I/O exchange and no more: send_report is
\* called exactly once when the request encodes and not at all when it does
\* not, whatever the outcome; in every operation each hidpp_request call
\* accounts for at most one frame and each frame for one answer.
C11_OneExchangePerRequest ==
    /\ Len(rcvd) = Len(sent)
    /\ Len(sent) <= Len(outcomes)
    /\ (op = "hidpp_request" /\ pc = "request") => sent = <<>>
    /\ (op = "hidpp_request" /\ pc = "done") =>
        /\ Len(outcomes) = 1
        /\ Len(args.req.params) <= 16 =>
            /\ Len(sent) = 1
            /\ sent[1][2] = args.req.device_index
            /\ sent[1][3] = args.req.feature_index
            /\ sent[1][4] = args.req.function_sw
        /\ Len(args.req.params) > 16 => (sent = <<>> /\ ~result.ok)

C11_Witness ==
    /\ op = "hidpp_request"
    /\ pc = "done"
    /\ Len(sent) = 1
    /\ rcvd[1].ok
    /\ Undecodable(rcvd[1].val)
    /\ ~result.ok

AnsweredIndexZero ==
    /\ Len(rcvd) >= 1
    /\ rcvd[1].ok
    /\ ~Undecodable(rcvd[1].val)
    /\ rcvd[1].val[3] # 255
    /\ rcvd[1].val[5] = 0

\* C13: when the bootstrap query answers feature index 0, lookup_feature_index
\* does not return 0 as an index; it fails with an error that no decoded
\* protocol-error frame can produce (hidpp_request turns an error frame into
\* HidppProtocol{params[0], params[2]}, both bytes).
C13_NotSupportedIsDistinct ==
    (op = "lookup_feature_index" /\ pc = "done" /\ AnsweredIndexZero) =>
        /\ ~result.ok
        /\ \A f \in Byte, c \in Byte : result.err # HidppProtocol(f, c)

\* the feature an operation resolves before anything else
ResolvedFeature ==
    IF op = "read_report_rate" THEN REPORT_RATE ELSE ADJUSTABLE_DPI

\* C14: in read_dpi, write_dpi and read_report_rate a bootstrap answer of
\* feature index 0 ends the operation: it returns the not-supported error of
\* the lookup and the lookup frame is the only frame ever sent.
C14_UnsupportedFeatureStops ==
    (op \in {"read_dpi", "write_dpi", "read_report_rate"} /\ AnsweredIndexZero) =>
        /\ pc = "done"
        /\ result = Err(HidppProtocol(ResolvedFeature, 5))
        /\ Len(sent) = 1
        /\ Len(outcomes) = 1
        /\ sent[1] = encode(lookup_request(args.device_index, ResolvedFeature)).val

C14_Witness ==
    /\ op = "read_report_rate"
    /\ pc = "done"
    /\ AnsweredIndexZero
    /\ Len(sent) = 1
    /\ ~result.ok

\* C15: encode gives a 7-byte frame for 0 to 3 parameter bytes, a 20-byte
\* frame for 4 to 16, and an error for more than 16.
C15_EncodeLengths ==
    (op = "encode" /\ pc = "done") =>
        LET n == Len(args.req.params) IN
        /\ n <= 3 => (result.ok /\ Len(result.val) = 7)
        /\ (n >= 4 /\ n <= 16) => (result.ok /\ Len(result.val) = 20)
        /\ n > 16 => ~result.ok

C15_Witness ==
    /\ op = "encode"
    /\ pc = "done"
    /\ Len(args.req.params) = 4
    /\ result.ok
    /\ Len(result.val) = 20

\* C16: the encoded frame is bit-exact: byte 0 is 0x10 for a short frame and
\* 0x11 for a long one, byte 1 the device index, byte 2 the feature index,
\* byte 3 the function/software-id byte, then the parameters in order, then
\* zeros up to the frame length.
C16_WireLayout ==
    (op = "encode" /\ pc = "done" /\ result.ok) =>
        LET b == result.val
            r == args.req
        IN  /\ Len(b) \in {7, 20}
            /\ b[1] = IF Len(b) = 7 THEN 16 ELSE 17
            /\ b[2] = r.device_index
            /\ b[3] = r.feature_index
            /\ b[4] = r.function_sw
            /\ \A i \in 1..Len(r.params) : b[4 + i] = r.params[i]
            /\ \A i \in (5 + Len(r.params))..Len(b) : b[i] = 0

C16_Witness ==
    /\ op = "encode"
    /\ pc = "done"
    /\ args.req = HidppRequest_new(255, 7, 2, <<161, 162, 163, 164, 165>>)
    /\ result = Ok(<<17, 255, 7, 33, 161, 162, 163, 164, 165>> \o Zeros(11))

\* C17: decoding the bytes of an encoded request reproduces device_index,
\* feature_index and function_sw, and is_long holds iff the request had more
\* than 3 parameter bytes.
C17_RoundTrip ==
    (op = "round_trip" /\ pc = "done") =>
        /\ result.ok
        /\ result.val.device_index = args.req.device_index
        /\ result.val.feature_index = args.req.feature_index
        /\ result.val.function_sw = args.req.function_sw
        /\ result.val.is_long <=> (Len(args.req.params) > 3)

C17_Witness ==
    /\ op = "round_trip"
    /\ pc = "done"
    /\ Len(args.req.params) = 16
    /\ args.req.device_index = 255
    /\ args.req.feature_index = 7
    /\ result.ok
    /\ result.val.is_long
    /\ result.val.device_index = 255
    /\ result.val.feature_index = 7
    /\ result.val.function_sw = args.req.function_sw

\* C18: decode fails exactly when the input has fewer than 7 bytes, or byte 0
\* is neither 0x10 nor 0x11, or byte 0 is 0x11 and there are fewer than 20
\* bytes.
C18_DecodeFailsExactly ==
    (op = "decode" /\ pc = "done") =>
        (~result.ok <=>
            \/ Len(args.data) < 7
            \/ args.data[1] \notin {16, 17}
            \/ (args.data[1] = 17 /\ Len(args.data) < 20))

C18_Witness ==
    /\ op = "decode"
    /\ pc = "done"
    /\ Len(args.data) = 19
    /\ args.data[1] = 17
    /\ ~result.ok

\* C19: check_device_status never retries: it sends exactly one frame, the
\* ping to feature index 0, function 0, params [0, 0], and returns Connected
\* on success, Disconnected for a Disconnected-class error, PermissionError
\* for a PermissionDenied-class error, and Error for every other class
\* (Transient, Protocol, InvalidResponse), a timeout included.
C19_StatusFromOnePing ==
    (op = "check_device_status" /\ pc = "done") =>
        /\ Len(sent) = 1
        /\ Len(outcomes) = 1
        /\ sent[1] = <<16, args.device_index, 0, 1, 0, 0, 0>>
        /\ result.ok
        /\ outcomes[1].ok => result.val = "Connected"
        /\ ~outcomes[1].ok =>
            LET class == classify(outcomes[1].err) IN
            /\ class = "Disconnected" => result.val = "Disconnected"
            /\ class = "PermissionDenied" => result.val = "PermissionError"
            /\ class \in {"Transient", "Protocol", "InvalidResponse"} =>
                result.val = "Error"
            /\ class \in {"Disconnected", "PermissionDenied", "Transient",
                          "Protocol", "InvalidResponse"}
        /\ rcvd[1] = Err(Timeout(M_1S_ELAPSED)) => result.val = "Error"

C19_Witness ==
    /\ op = "check_device_status"
    /\ pc = "done"
    /\ Len(sent) = 1
    /\ rcvd[1] = Err(Timeout(M_1S_ELAPSED))
    /\ result = Ok("Error")

\* C20: validate_polling_rate(hz) succeeds exactly for 125, 250, 500 and
\* 1000, returning the rate whose Hz value is hz; every other 16-bit value is
\* rejected.
C20_PollingRateExactSet ==
    (op = "validate_polling_rate" /\ pc = "done") =>
        /\ result.ok <=> args.hz \in {125, 250, 500, 1000}
        /\ result.ok =>
            /\ result.val \in {"Hz125", "Hz250", "Hz500", "Hz1000"}
            /\ as_hz(result.val) = args.hz
        /\ ~result.ok => result.err = OutOfRange("polling_rate", args.hz, 125, 1000)
        /\ args.hz \in {0, 1, 124, 126, 999, 1001, 65535} => ~result.ok

C20_Witness ==
    /\ op = "validate_polling_rate"
    /\ pc = "done"
    /\ args.hz = 500
    /\ result = Ok("Hz500")

\* the button index of the running operation is one of 0..5
ValidButtonIndex == args.button_index.hi = 0 /\ args.button_index.lo \in 0..5

\* C21: read_button_mapping and write_button_mapping accept a button index
\* iff it is in 0..5: a valid index goes on to the feature lookup, and any
\* index >= 6 fails with an out-of-range error with no frame sent.
C21_ButtonIndexGate ==
    (op \in {"read_button_mapping", "write_button_mapping"}) =>
        /\ ~ValidButtonIndex =>
            /\ pc = "done"
            /\ sent = <<>>
            /\ outcomes = <<>>
            /\ ~result.ok
            /\ result.err.kind = "OutOfRange"
            /\ result.err.field = "button_index"
        /\ ValidButtonIndex =>
            /\ pc = "done" => Len(sent) >= 1
            /\ (pc = "done" /\ ~result.ok) => result.err.kind # "OutOfRange"

C21_Witness ==
    /\ op = "write_button_mapping"
    /\ pc = "done"
    /\ args.button_index = usize(0, 6)
    /\ sent = <<>>
    /\ result = Err(OutOfRange("button_index", 6, 0, 5))

\* answer k of the running operation is a decodable frame that is no error frame
GoodAnswer(k) ==
    /\ k <= Len(rcvd)
    /\ rcvd[k].ok
    /\ ~Undecodable(rcvd[k].val)
    /\ rcvd[k].val[3] # 255

\* the first two exchanges of read_button_mapping and write_button_mapping:
\* the lookup of 0x1B04, then getControlInfo (function 1, param [i]) to the
\* index the lookup reported; a step is only taken when the one before it
\* succeeded, and a failed step ends the operation
ButtonPrefix ==
    /\ Len(sent) <= 3
    /\ Len(sent) >= 1 => sent[1] = <<16, args.device_index, 0, 1, 27, 4, 0>>
    /\ Len(sent) >= 2 =>
        /\ GoodAnswer(1)
        /\ rcvd[1].val[5] # 0
        /\ sent[2] = <<16, args.device_index, rcvd[1].val[5], 17,
                       args.button_index.lo, 0, 0>>
    /\ Len(sent) = 3 =>
        /\ GoodAnswer(2)
        /\ rcvd[2].val[1] = 17
    /\ (Len(sent) >= 1 /\ ~(GoodAnswer(1) /\ rcvd[1].val[5] # 0)) =>
        (pc = "done" /\ ~result.ok /\ Len(sent) = 1)
    /\ (Len(sent) >= 2 /\ ~(GoodAnswer(2) /\ rcvd[2].val[1] = 17)) =>
        (pc = "done" /\ ~result.ok /\ Len(sent) = 2)
    /\ (Len(sent) = 3 /\ ~GoodAnswer(3)) => (pc = "done" /\ ~result.ok)
    /\ (pc = "done" /\ result.ok) => (Len(sent) = 3 /\ GoodAnswer(3))

\* C26 as stated: a successful read_button_mapping returns the action decoded
\* from the remap CID carried by the last response.
C26_ActionFromLastResponse ==
    (op = "read_button_mapping" /\ pc = "done" /\ result.ok) =>
        /\ rcvd[3].val[1] = 17
        /\ result.val = cid_to_action(rcvd[3].val[8] * 256 + rcvd[3].val[9])

\* C26 (amended): for a valid index i read_button_mapping sends, in order, the
\* lookup of 0x1B04, function 1 with param [i], then function 2 with the CID
\* of the getControlInfo response, big-endian; a failure at any step ends the
\* operation without the later frames.  It returns the action decoded from
\* the remap CID of the last response when that response is a long report,
\* and the action decoded from the control's own CID when it is a short one.
C26_ReadSequence ==
    (op = "read_button_mapping" /\ ValidButtonIndex) =>
        /\ ButtonPrefix
        /\ Len(sent) = 3 =>
            sent[3] = <<16, args.device_index, rcvd[1].val[5], 33,
                        rcvd[2].val[5], rcvd[2].val[6], 0>>
        /\ (pc = "done" /\ result.ok) =>
            result.val =
                IF rcvd[3].val[1] = 17
                THEN cid_to_action(rcvd[3].val[8] * 256 + rcvd[3].val[9])
                ELSE cid_to_action(rcvd[2].val[5] * 256 + rcvd[2].val[6])

C26_Witness ==
    /\ op = "read_button_mapping"
    /\ pc = "done"
    /\ args.button_index = usize(0, 1)
    /\ Len(sent) = 3
    /\ sent[3] = <<16, args.device_index, 7, 33, 0, 81, 0>>
    /\ result = Ok("RightClick")
    /\ rcvd[3].val[1] = 16

\* C27: for a valid index i and action a write_button_mapping sends, in
\* order, the lookup of 0x1B04, function 1 with param [i], then function 3 in
\* a long frame with params [CID high, CID low, 0x10, remap high, remap low],
\* CID being the one the device reported for i and remap = action_to_cid(a);
\* the set-remap frame is never sent unless the CID query succeeded.
C27_WriteSequence ==
    (op = "write_button_mapping" /\ ValidButtonIndex) =>
        /\ ButtonPrefix
        /\ Len(sent) = 3 =>
            sent[3] = <<17, args.device_index, rcvd[1].val[5], 49,
                        rcvd[2].val[5], rcvd[2].val[6], 16,
                        action_to_cid(args.action) \div 256,
                        action_to_cid(args.action) % 256>> \o Zeros(11)
        /\ (pc = "done" /\ result.ok) => result = Ok(NoVal)

C27_Witness ==
    /\ op = "write_button_mapping"
    /\ pc = "done"
    /\ args.button_index = usize(0, 3)
    /\ args.action = "Forward"
    /\ Len(sent) = 3
    /\ rcvd[2].val[5] = 0
    /\ rcvd[2].val[6] = 83
    /\ sent[3] = <<17, args.device_index, 7, 49, 0, 83, 16, 0, 86>> \o Zeros(11)
    /\ result.ok

\* C22: validate_hidpp_request(feature_id, function_id) succeeds iff
\* feature_id is in the allow-list and function_id <= 15; the feature check
\* runs first, so when both are invalid the error names feature_id.
C22_RequestGate ==
    (op = "validate_hidpp_request" /\ pc = "done") =>
        LET allowed == args.feature_id \in {0, 1, 5, 4096, 6916, 8705, 32864, 33024}
            in_field == args.function_id <= 15
        IN  /\ result.ok <=> (allowed /\ in_field)
            /\ ~allowed =>
                result = Err(OutOfRange("feature_id", args.feature_id, 0, 65535))
            /\ (allowed /\ ~in_field) =>
                result = Err(OutOfRange("function_id", args.function_id, 0, 15))

C22_Witness ==
    /\ op = "validate_hidpp_request"
    /\ pc = "done"
    /\ args.feature_id = 208
    /\ args.function_id = 16
    /\ ~result.ok
    /\ result.err.field = "feature_id"

\* C23: every rejection by validate_dpi, validate_polling_rate,
\* validate_button_index, validate_feature_id and validate_hidpp_request is an
\* out-of-range error whose field names the rejected input, whose value is
\* the offending input, and whose min and max are the bounds of that field.
C23_StructuredRejection ==
    (pc = "done" /\ ~result.ok) =>
        /\ op = "validate_dpi" =>
            result.err = OutOfRange("dpi", args.dpi, 100, 25600)
        /\ op = "validate_polling_rate" =>
            result.err = OutOfRange("polling_rate", args.hz, 125, 1000)
        /\ op = "validate_feature_id" =>
            result.err = OutOfRange("feature_id", args.feature_id, 0, 65535)
        /\ op = "validate_hidpp_request" =>
            \/ result.err = OutOfRange("feature_id", args.feature_id, 0, 65535)
            \/ result.err = OutOfRange("function_id", args.function_id, 0, 15)
        /\ op = "validate_button_index" =>
            /\ result.err.kind = "OutOfRange"
            /\ result.err.field = "button_index"
            /\ result.err.min = 0
            /\ result.err.max = 5
            /\ args.button_index = usize(0, result.err.value)

\* C28: cid_to_action(action_to_cid(a)) = a for every button action a, NoAction
\* going to CID 0x0000 and back; cid_to_action never fails, and every CID
\* outside the table decodes to NoAction.
C28_CidActionMapping ==
    /\ (op = "action_to_cid" /\ pc = "done") =>
        /\ result = Ok(args.action)
        /\ args.action = "NoAction" <=> args.cid = 0
    /\ (op = "cid_to_action" /\ pc = "done") =>
        /\ result.ok
        /\ result.val \in ButtonActions
        /\ args.cid \notin {80, 81, 82, 83, 86, 77, 78} => result.val = "NoAction"
        /\ args.cid \in {80, 81, 82, 83, 86, 77, 78} =>
            (result.val # "NoAction" /\ action_to_cid(result.val) = args.cid)

C28_Witness ==
    /\ op = "cid_to_action"
    /\ pc = "done"
    /\ args.cid = 65535
    /\ result = Ok("NoAction")

\* the DPI the device must hold after what the thread wrote: 800 as set up,
\* else the validated form of the last value written with success
ExpectedDpi ==
    IF threads[1].wrote_dpi = 0 THEN 800 ELSE validate_dpi(threads[1].wrote_dpi).val

\* C24: against a device that supports the DPI feature, keeps the DPI of each
\* set-DPI frame and reports it in get-DPI responses, read_dpi returns the
\* device's current DPI (800 at first), and after write_dpi(x) succeeds the
\* next read_dpi returns validate_dpi(x) (1600 for x = 1600).
C24_DpiRoundTrip ==
    LET th == threads[1] IN
    /\ (th.op = "read_dpi" /\ th.pc = "done") =>
        /\ th.result = Ok(ExpectedDpi)
        /\ th.wrote_dpi = 0 => th.result = Ok(800)
        /\ th.wrote_dpi = 1600 => th.result = Ok(1600)
        /\ th.wrote_dpi = 825 => th.result = Ok(850)
    /\ (th.op = "write_dpi" /\ th.pc = "done") =>
        /\ th.result.ok <=> (th.dpi >= 100 /\ th.dpi <= 25600)
        /\ th.result.ok => (th.wrote_dpi = th.dpi /\ th.result.val = ExpectedDpi)

C24_Witness ==
    /\ threads[1].op = "read_dpi"
    /\ threads[1].pc = "done"
    /\ threads[1].wrote_dpi = 1600
    /\ threads[1].result = Ok(1600)

\* the interval byte of each rate
IntervalOf(rate) ==
    CASE rate = "Hz1000" -> 1
      [] rate = "Hz500" -> 2
      [] rate = "Hz250" -> 4
      [] rate = "Hz125" -> 8

\* C25: the rate-interval encoding is a bijection on the four rates (1000 Hz
\* <-> 1, 500 Hz <-> 2, 250 Hz <-> 4, 125 Hz <-> 8): write_report_rate sends
\* exactly that one interval byte with function 2, reading the interval back
\* gives the rate written, and read_report_rate returns a protocol error for
\* any other interval byte in the response (0 or 3).
C25_RateIntervalEncoding ==
    LET th == threads[1] IN
    /\ th.op = "write_report_rate" =>
        /\ Len(th.frames) <= 2
        /\ Len(th.frames) = 2 =>
            th.frames[2] = <<16, 1, th.answers[1].val[5], 33, IntervalOf(th.rate), 0, 0>>
        /\ th.pc = "done" =>
            (th.result = Ok(NoVal) /\ Len(th.frames) = 2
                /\ interval_to_rate(th.frames[2][5]) = Ok(th.rate))
    /\ (th.op = "read_report_rate" /\ th.pc = "done") =>
        LET b == th.answers[2].val[5] IN
        /\ Len(th.frames) = 2
        /\ b \in {1, 2, 4, 8} => (th.result.ok /\ IntervalOf(th.result.val) = b)
        /\ b \notin {1, 2, 4, 8} => th.result = Err(HidppProtocol(32864, b))
        /\ th.wrote_rate # "" => th.result = Ok(th.wrote_rate)

C25_Witness ==
    /\ threads[1].op = "read_report_rate"
    /\ threads[1].pc = "done"
    /\ threads[1].wrote_rate = "Hz125"
    /\ threads[1].answers[2].val[5] = 8
    /\ threads[1].result = Ok("Hz125")

\* what each read returns when it runs alone against the device as set up
SoloResult(o) ==
    CASE o = "read_dpi" -> Ok(800)
      [] o = "read_report_rate" -> Ok("Hz1000")
      [] o = "read_control_count" -> Ok(6)

\* C29: several threads run read_dpi, read_report_rate and read_control_count
\* at once on one transport whose send_report is atomic: under every
\* interleaving each thread gets the result it would get alone (800,
\* 1000 Hz, 6), and every answer a thread receives is the response to the
\* frame that thread sent.
C29_ConcurrentReads ==
    \A t \in Threads :
        LET th == threads[t] IN
        /\ th.pc = "done" => th.result = SoloResult(th.op)
        /\ Len(th.answers) = Len(th.frames)
        /\ \A k \in 1..Len(th.frames) :
            /\ th.answers[k] = device_send_report(G502, th.frames[k]).answer
            /\ th.answers[k].ok
            /\ th.answers[k].val[3] = th.frames[k][3]
            /\ th.answers[k].val[4] = th.frames[k][4]
        /\ Len(th.frames) >= 1 =>
            th.frames[1] = encode(lookup_request(1, feature_of(th.op))).val
        /\ Len(th.frames) = 2 =>
            th.frames[2][3] = feature_index_of("first", feature_of(th.op))

C29_Witness ==
    /\ threads[1].op = "read_dpi"
    /\ threads[1].pc = "command"
    /\ threads[2].op = "read_report_rate"
    /\ threads[2].pc = "done"
    /\ threads[2].result = Ok("Hz1000")
    /\ threads[3].op = "read_control_count"
    /\ threads[3].pc = "done"
    /\ threads[3].result = Ok(6)

\* C30: no feature index is kept from one operation to the next: every
\* operation of the DPI, report-rate, button and onboard-profile modules
\* starts with the lookup frame (feature index 0, function 0, its own feature
\* id) and addresses its following frame to the index of that response, so
\* after the device hands out other indexes the new index is used.
C30_NoIndexCache ==
    LET th == threads[1]
        fid == feature_of(th.op)
    IN  (th.op # "idle") =>
            /\ Len(th.frames) <= 2
            /\ Len(th.frames) >= 1 =>
                th.frames[1] = <<16, 1, 0, 1, fid \div 256, fid % 256, 0>>
            /\ th.pc = "command" =>
                (Len(th.frames) = 1 /\ th.feature_idx = th.answers[1].val[5])
            /\ Len(th.frames) = 2 =>
                /\ th.frames[2][3] = th.answers[1].val[5]
                /\ th.frames[2][3] = feature_index_of(device.table, fid)
            /\ (th.pc = "done" /\ th.result.ok) => Len(th.frames) = 2

C30_Witness ==
    /\ device.table = "second"
    /\ threads[1].op = "read_dpi"
    /\ threads[1].pc = "done"
    /\ threads[1].wrote_dpi = 1600
    /\ threads[1].frames[2][3] = 8
    /\ threads[1].result = Ok(1600)

\* the rates whose interval bit is set in bitmask, fastest first
RatesOfMask(bitmask) ==
    LET bit(k) == (bitmask \div k) % 2 = 1
    IN  (IF bit(1) THEN <<"Hz1000">> ELSE <<>>) \o (IF bit(2) THEN <<"Hz500">> ELSE <<>>)
            \o (IF bit(4) THEN <<"Hz250">> ELSE <<>>) \o (IF bit(8) THEN <<"Hz125">> ELSE <<>>)

\* C31: read_supported_rates returns exactly the rates whose interval bit is
\* set in the first response byte (1 -> 1000 Hz, 2 -> 500 Hz, 4 -> 250 Hz,
\* 8 -> 125 Hz), in that order and without duplicates; bits above 0x08 are
\* ignored, 0x0F yields all four rates and 0x00 an empty list, not an error.
C31_SupportedRates ==
    LET th == threads[1]
    IN  (th.op = "read_supported_rates" /\ th.pc = "done" /\ Len(th.answers) = 2) =>
            /\ th.result = Ok(RatesOfMask(device.rate_list))
            /\ th.result = Ok(RatesOfMask(device.rate_list % 16))
            /\ device.rate_list % 16 = 15 =>
                    th.result = Ok(<<"Hz1000", "Hz500", "Hz250", "Hz125">>)
            /\ device.rate_list % 16 = 0 => th.result = Ok(<<>>)

C31_Witness ==
    /\ threads[1].op = "read_supported_rates"
    /\ threads[1].pc = "done"
    /\ device.rate_list = 26
    /\ threads[1].result = Ok(<<"Hz500", "Hz125">>)

\* n <= max_retries + 1, for the attempt counts a run can reach
AttemptsWithin(n, max_retries) == max_retries.hi > 0 \/ n <= max_retries.lo + 1

\* C32: send_with_retry always terminates: for every transport behaviour and
\* every max_retries it makes at least 1 and at most max_retries + 1 attempts,
\* and its result is always the Ok or Err produced by its last attempt; the
\* fallback error "retry loop completed without result" is never returned.
C32_RetryTerminates ==
    op = "send_with_retry" =>
        /\ pc # "panicked"
        /\ AttemptsWithin(Len(outcomes), args.max_retries)
        /\ pc = "loop" => AttemptsWithin(Len(outcomes) + 1, args.max_retries)
        /\ pc = "done" =>
            /\ Len(outcomes) >= 1
            /\ result = outcomes[Len(outcomes)]
            /\ result # Err(Hid(MSG_RETRY_FALLBACK))

\* C33: hidpp_request does not correlate the response with the request: it
\* returns Ok for any decodable response whose feature_index is not 0xFF, even
\* when the response's device_index, feature_index or function_sw differ from
\* those of the request that was sent.
C33_ResponseNotCorrelated ==
    (/\ op = "hidpp_request"
     /\ pc = "done"
     /\ Len(rcvd) = 1
     /\ rcvd[1].ok
     /\ ~Undecodable(rcvd[1].val)
     /\ rcvd[1].val[3] # ERROR_FEATURE_INDEX) =>
        /\ result.ok
        /\ result.val.device_index = rcvd[1].val[2]
        /\ result.val.feature_index = rcvd[1].val[3]
        /\ result.val.function_sw = rcvd[1].val[4]

C33_Witness ==
    /\ op = "hidpp_request"
    /\ pc = "done"
    /\ result.ok
    /\ result.val.device_index # args.req.device_index
    /\ result.val.feature_index # args.req.feature_index
    /\ result.val.function_sw # args.req.function_sw

\* C34: HidppRequest::new builds function_sw as ((function mod 16) * 16) + 1
\* for every 8-bit function value: the software-id nibble is always 1,
\* function() of the echoed byte equals function for 0..15, and a function of
\* 16 or more is truncated to its low 4 bits, not rejected (16 yields the same
\* byte as 0).
C34_FunctionNibble ==
    (op = "HidppRequest_new" /\ pc = "done") =>
        /\ result.ok
        /\ result.val.function_sw = ((args.function_id % 16) * 16) + 1
        /\ result.val.function_sw % 16 = 1
        /\ encode(result.val).val[4] = result.val.function_sw
        /\ args.function_id <= 15 => function(result.val) = args.function_id
        /\ args.function_id >= 16 => function(result.val) = args.function_id % 16
        /\ args.function_id = 16 => result.val.function_sw = 1

C34_Witness ==
    /\ op = "HidppRequest_new"
    /\ pc = "done"
    /\ args.function_id = 18
    /\ result.val.function_sw = 33

\* C37: validate_dpi is idempotent: for every d in [100, 25600],
\* validate_dpi(validate_dpi(d)) = validate_dpi(d), so a value validated by the
\* front end and validated again inside write_dpi is written unchanged.
C37_ValidateDpiIdempotent ==
    (op = "revalidate_dpi" /\ pc = "done") =>
        /\ args.dpi \in 100..25600
        /\ result = Ok(locals.validated)
        /\ result = validate_dpi(args.dpi)
        /\ LET params == write_dpi_request(1, 7, result.val).params
           IN  params[2] * 256 + params[3] = locals.validated

C37_Witness ==
    /\ op = "revalidate_dpi"
    /\ pc = "done"
    /\ args.dpi = 825
    /\ locals.validated = 850
    /\ result = Ok(850)

\* C35: on success decode returns params of exactly 3 bytes for a 0x10 frame
\* (input bytes 4..6) and exactly 16 bytes for a 0x11 frame (input bytes
\* 4..19); input longer than the frame length is accepted and its extra bytes
\* are ignored.
C35_DecodedParams ==
    (op = "decode" /\ pc = "done") =>
        LET data == args.data IN
        /\ (Len(data) >= 7 /\ data[1] = 16) =>
            /\ result.ok
            /\ result.val.params = <<data[5], data[6], data[7]>>
        /\ (Len(data) >= 20 /\ data[1] = 17) =>
            /\ result.ok
            /\ Len(result.val.params) = 16
            /\ \A i \in 1..16 : result.val.params[i] = data[4 + i]
        /\ result.ok => Len(result.val.params) = (IF data[1] = 16 THEN 3 ELSE 16)

C35_Witness ==
    /\ op = "decode"
    /\ pc = "done"
    /\ Len(args.data) = 21
    /\ args.data[1] = 16
    /\ result.ok
    /\ result.val.params = <<164, 165, 166>>

\* the operations that ask for a control's info as their second frame
ControlInfoOps == {"read_control_info", "read_button_mapping", "write_button_mapping"}

\* C36: a control-info response that is a short frame (3 param bytes, fewer
\* than the 5 needed) makes read_control_info, read_button_mapping and
\* write_button_mapping fail with a protocol error for feature 0x1B04 with
\* code 0xFE, and the following get-remap or set-remap frame is not sent.
C36_ShortControlInfo ==
    (/\ op \in ControlInfoOps
     /\ Len(rcvd) >= 2
     /\ GoodAnswer(2)
     /\ rcvd[2].val[1] = 16) =>
        /\ pc = "done"
        /\ result = Err(HidppProtocol(6916, 254))
        /\ Len(sent) = 2

C36_Witness ==
    /\ op = "write_button_mapping"
    /\ pc = "done"
    /\ Len(sent) = 2
    /\ GoodAnswer(2)
    /\ rcvd[2].val = <<16, args.device_index, sent[2][3], 17, 3, 32, 3>>
    /\ result = Err(HidppProtocol(6916, 254))

\* C38: GUI state invariant: after any sequence of messages the application's
\* dpi field is within [100, 25600] and a multiple of 50; DpiChanged(v) with v
\* out of range leaves dpi unchanged, and ButtonChanged or CustomCidChanged
\* with an index >= 6 leaves the button state unchanged.
C38_GuiStateInvariant ==
    /\ [](app.dpi >= 100 /\ app.dpi <= 25600 /\ app.dpi % 50 = 0)
    /\ [][LET m == app'.message
              past_end == m.index.hi > 0 \/ m.index.lo >= 6
          IN  /\ (m.kind = "DpiChanged" /\ (m.value < 100 \/ m.value > 25600)) =>
                    app'.dpi = app.dpi
              /\ (m.kind \in {"ButtonChanged", "CustomCidChanged"} /\ past_end) =>
                    (app'.buttons = app.buttons /\ app'.custom_cids = app.custom_cids)]_vars

C38_Witness ==
    /\ app.message.kind = "DpiChanged"
    /\ app.message.value = 30000
    /\ app.dpi = 850
    /\ app.buttons[1] = "Back"

\* the writes of one run of the closure, from the DPI write on
AllWrites(dev) == [w \in 1..8 |-> [dev |-> dev, write |-> w]]

\* C39: with_device_index tries device index 0xFF first and 0x01 second,
\* returns the first success without trying the remaining candidate, and
\* returns the second candidate's error when both fail; in ApplySettings the
\* whole DPI -> rate -> six-button write sequence is one such operation, so a
\* failure at any write for index 0xFF re-runs the sequence from the DPI write
\* with index 0x01, and writes already accepted are not rolled back.
C39_DeviceIndexFallback ==
    LET ap == app.apply
        started == ap.started
        frames == ap.frames
        of(dev, log) == SelectSeq(log, LAMBDA e : e.dev = dev)
    IN  ap.pc # "idle" =>
            /\ ap.tried \in {<<255>>, <<255, 1>>}
            /\ Len(ap.errors) = (IF ap.pc = "done" /\ ~ap.result.ok
                                 THEN Len(ap.tried) ELSE Len(ap.tried) - 1)
            /\ \A dev \in {255, 1} :
                /\ of(dev, started) = SubSeq(AllWrites(dev), 1, Len(of(dev, started)))
                /\ of(dev, ap.accepted) = SubSeq(AllWrites(dev), 1, Len(of(dev, ap.accepted)))
                /\ Len(of(dev, ap.accepted)) <= Len(of(dev, started))
                /\ Len(of(dev, started)) <= Len(of(dev, ap.accepted)) + 1
            /\ started = of(255, started) \o of(1, started)
            /\ ap.accepted = of(255, ap.accepted) \o of(1, ap.accepted)
            /\ frames = of(255, frames) \o of(1, frames)
            /\ frames # <<>> => frames[1] = [dev |-> 255, write |-> 1, stage |-> "lookup"]
            /\ of(1, frames) # <<>> =>
                    of(1, frames)[1] = [dev |-> 1, write |-> 1, stage |-> "lookup"]
            /\ (ap.pc = "done" /\ ap.result.ok) =>
                    of(ap.tried[Len(ap.tried)], ap.accepted)
                        = AllWrites(ap.tried[Len(ap.tried)])
            /\ (ap.pc = "done" /\ Len(ap.tried) = 1) => ap.result.ok
            /\ Len(of(255, ap.accepted)) = 8 => ap.tried = <<255>>
            /\ (ap.pc = "done" /\ ~ap.result.ok) =>
                    (ap.tried = <<255, 1>> /\ ap.result = Err(ap.errors[2]))

C39_Witness ==
    /\ app.apply.pc = "done"
    /\ app.apply.tried = <<255, 1>>
    /\ ~app.apply.result.ok
    /\ app.apply.errors[1] = HidppProtocol(6916, 254)
    /\ app.apply.result = Err(Timeout(M_1S_ELAPSED))
    /\ app.apply.accepted
        = <<[dev |-> 255, write |-> 1], [dev |-> 255, write |-> 2],
            [dev |-> 1, write |-> 1]>>

====
